---- MODULE Spec2Model ----
(***************************************************************************)
(* md2llm: conversion of a tree of markdown files into rule files.         *)
(*                                                                         *)
(* The model follows one run of the command line tool:                     *)
(*   handleConvertCommand -> validateOptions -> processConversion ->       *)
(*   filterDocumentationFiles -> groupFilesByPackage ->                    *)
(*   processGroupedFiles (one step per package group / standalone file).   *)
(*                                                                         *)
(* Strings are TLA+ strings; the JavaScript string and path functions the  *)
(* code uses are written out as operators over them.  Paths are relative   *)
(* to the working directory, as the command line tests give them, and are  *)
(* spelled with the separator of the platform the run is on.  markdown-it  *)
(* is outside the model: a document is the token array md.parse returns    *)
(* for it.  The collector is outside the model too: a run starts from the  *)
(* list of paths collectMarkdownFiles returned.                            *)
(***************************************************************************)
EXTENDS Integers, Sequences, FiniteSets, TLC

(***************************************************************************)
(* Optional values: null / undefined is None, a value v is Some(v).        *)
(***************************************************************************)
None == <<>>
Some(v) == <<v>>
IsSome(m) == m # <<>>
Val(m) == m[1]

(***************************************************************************)
(* JavaScript string and array functions.                                  *)
(***************************************************************************)
CharAt(s, i) == SubSeq(s, i, i)

StartsWith(s, p) == Len(s) >= Len(p) /\ SubSeq(s, 1, Len(p)) = p

EndsWith(s, p) == Len(s) >= Len(p) /\ SubSeq(s, Len(s) - Len(p) + 1, Len(s)) = p

\* String.prototype.includes for a non-empty needle
Includes(s, p) == \E i \in 1..(Len(s) - Len(p) + 1) : SubSeq(s, i, i + Len(p) - 1) = p

\* index of the last occurrence of the character c in s, 0 when there is none
RECURSIVE LastIndexFrom(_, _, _)
LastIndexFrom(s, c, i) ==
  IF i = 0 THEN 0
  ELSE IF CharAt(s, i) = c THEN i ELSE LastIndexFrom(s, c, i - 1)

LastIndexOf(s, c) == LastIndexFrom(s, c, Len(s))

\* index of the first occurrence of the character c in s, 0 when there is none
RECURSIVE IndexFrom(_, _, _)
IndexFrom(s, c, i) ==
  IF i > Len(s) THEN 0
  ELSE IF CharAt(s, i) = c THEN i ELSE IndexFrom(s, c, i + 1)

IndexOf(s, c) == IndexFrom(s, c, 1)

WhiteSpace == {" ", "\n", "\t"}

\* String.prototype.trim
RECURSIVE TrimStart(_)
TrimStart(s) ==
  IF s # "" /\ CharAt(s, 1) \in WhiteSpace THEN TrimStart(SubSeq(s, 2, Len(s))) ELSE s

RECURSIVE TrimEnd(_)
TrimEnd(s) ==
  IF s # "" /\ CharAt(s, Len(s)) \in WhiteSpace THEN TrimEnd(SubSeq(s, 1, Len(s) - 1)) ELSE s

Trim(s) == TrimEnd(TrimStart(s))

\* String.prototype.toLowerCase, over the letters of the paths
UpperCase == "ABCDEFGHIJKLMNOPQRSTUVWXYZ"
LowerCase == "abcdefghijklmnopqrstuvwxyz"

RECURSIVE toLowerCase(_)
toLowerCase(s) ==
  IF s = "" THEN ""
  ELSE (IF IndexOf(UpperCase, CharAt(s, 1)) > 0
        THEN CharAt(LowerCase, IndexOf(UpperCase, CharAt(s, 1)))
        ELSE CharAt(s, 1))
       \o toLowerCase(SubSeq(s, 2, Len(s)))

\* Array.prototype.join
RECURSIVE JoinLines(_, _)
JoinLines(lines, sep) ==
  IF lines = <<>> THEN ""
  ELSE IF Len(lines) = 1 THEN lines[1]
  ELSE lines[1] \o sep \o JoinLines(Tail(lines), sep)

\* Array.prototype.includes
Contains(seq, x) == \E i \in 1..Len(seq) : seq[i] = x

\* the elements of an array
Range(seq) == {seq[i] : i \in 1..Len(seq)}

\* s.replace(/c/g, d) for characters c and d
RECURSIVE ReplaceAll(_, _, _)
ReplaceAll(s, c, d) ==
  IF IndexOf(s, c) = 0 THEN s
  ELSE SubSeq(s, 1, IndexOf(s, c) - 1) \o d
       \o ReplaceAll(SubSeq(s, IndexOf(s, c) + 1, Len(s)), c, d)

\* `${n}` for the small counters of the model
Digits == <<"0", "1", "2", "3", "4", "5", "6", "7", "8", "9">>
RECURSIVE NumToString(_)
NumToString(n) ==
  IF n < 10 THEN Digits[n + 1] ELSE NumToString(n \div 10) \o Digits[(n % 10) + 1]

(***************************************************************************)
(* The state of one run of the command line tool.                          *)
(***************************************************************************)
VARIABLES
  platform,         \* process.platform: "posix" or "win32" (Node's path module follows it)
  markdownFiles,    \* what collectMarkdownFiles returns: the collected paths, in order
  manifests,        \* the package.json files on disk: path -> [state, name, homepage, repository]
  docs,             \* markdown file -> the token array md.parse gives for its content
  unreadable,       \* markdown files whose readFileSync fails
  unwritable,       \* markdown files whose output writeFileSync fails
  cliOptions,       \* the raw options commander hands to handleConvertCommand
  env,              \* process.env.SOURCE_BASE_URL: None when unset
  pc,               \* where the run is
  validatedOptions, \* the result of validateOptions
  filteredFiles,    \* processConversion: the files left by filterDocumentationFiles
  packageGroups,    \* processConversion: the groups of groupFilesByPackage
  standaloneFiles,  \* processConversion: its standalone files
  nextGroup,        \* processGroupedFiles: index of the next package group
  nextFile,         \* processGroupedFiles: index of the next standalone file
  processedCount,   \* processGroupedFiles: its counter of the same name
  errorCount,       \* processGroupedFiles: its counter of the same name
  createdDirs,      \* the directories createDirectory was asked for
  readLog,          \* the markdown files readFileSync was called on, in order
  written,          \* the writes that succeeded, in order
  args,             \* a function called on its own: its arguments (None in a run of the tool)
  ret               \* what that call returned (None before it returns)

vars == <<platform, markdownFiles, manifests, docs, unreadable, unwritable, cliOptions, env, pc,
          validatedOptions, filteredFiles, packageGroups, standaloneFiles, nextGroup, nextFile,
          processedCount, errorCount, createdDirs, readLog, written, args, ret>>

(***************************************************************************)
(* Node's path module: path.posix on "posix", path.win32 on "win32", on    *)
(* relative paths without "." and ".." segments.                           *)
(***************************************************************************)
\* path.sep
PathSep == IF platform = "win32" THEN "\\" ELSE "/"

\* what the platform's path functions take for a separator
IsSep(c) == c = "/" \/ (platform = "win32" /\ c = "\\")

\* index of the last separator of p, 0 when it has none
RECURSIVE LastSepFrom(_, _)
LastSepFrom(p, i) ==
  IF i = 0 THEN 0
  ELSE IF IsSep(CharAt(p, i)) THEN i ELSE LastSepFrom(p, i - 1)

LastSep(p) == LastSepFrom(p, Len(p))

\* path.normalize on such a path: win32 turns every "/" into "\"
NormalizeSeps(p) == IF platform = "win32" THEN ReplaceAll(p, "/", "\\") ELSE p

\* path.basename(p)
Basename(p) == SubSeq(p, LastSep(p) + 1, Len(p))

\* the base name b without the suffix ext: it is removed only when b ends with
\* exactly ext (compared character by character) and is longer than it
StripExt(b, ext) ==
  IF EndsWith(b, ext) /\ Len(b) > Len(ext) THEN SubSeq(b, 1, Len(b) - Len(ext)) ELSE b

\* path.basename(p, ext)
BasenameExt(p, ext) == IF p = ext THEN "" ELSE StripExt(Basename(p), ext)

\* path.dirname(p)
\* the directory of p, whose last separator is at index sep
DirnameAt(p, sep) ==
  IF sep = 0 THEN "."
  ELSE IF sep = 1 THEN SubSeq(p, 1, 1)
  ELSE SubSeq(p, 1, sep - 1)

Dirname(p) == DirnameAt(p, LastSep(p))

\* path.join(a, b)
PathJoin(a, b) ==
  IF a = "." \/ a = "" THEN NormalizeSeps(b)
  ELSE IF IsSep(CharAt(a, Len(a))) THEN NormalizeSeps(a \o b)
  ELSE NormalizeSeps(a \o PathSep \o b)

(***************************************************************************)
(* Snippet extractor (processors/snippet-extractor.js).                    *)
(* A token is [type, content, info]; a snippet is                          *)
(* [title, description, source, language, code].                           *)
(***************************************************************************)
Token(type, content, info) == [type |-> type, content |-> content, info |-> info]

\* a heading text that is not trimmed
extractHeadingTextUntrimmed(tokens, headingIndex) ==
  IF headingIndex + 1 <= Len(tokens) /\ tokens[headingIndex + 1].type = "inline"
  THEN tokens[headingIndex + 1].content
  ELSE ""

extractHeadingText(tokens, headingIndex) ==
  IF headingIndex + 1 <= Len(tokens) /\ tokens[headingIndex + 1].type = "inline"
  THEN Trim(tokens[headingIndex + 1].content)
  ELSE ""

\* a backward walk that a heading_open or a fence does not stop
RECURSIVE DescriptionWalkOverBreaks(_, _)
DescriptionWalkOverBreaks(tokens, i) ==
  IF i < 1 THEN ""
  ELSE IF "content" \notin DOMAIN tokens[i] THEN ""
  ELSE IF tokens[i].type = "inline" /\ Trim(tokens[i].content) # ""
       THEN Trim(tokens[i].content)
  ELSE DescriptionWalkOverBreaks(tokens, i - 1)

\* the backward walk from the fence: i runs from fenceIndex - 1 down to 1
RECURSIVE DescriptionWalk(_, _)
DescriptionWalk(tokens, i) ==
  IF i < 1 THEN ""
  ELSE IF tokens[i].type = "inline" /\ Trim(tokens[i].content) # ""
       THEN Trim(tokens[i].content)
  ELSE IF tokens[i].type = "paragraph_open" THEN DescriptionWalk(tokens, i - 1)
  ELSE IF tokens[i].type = "heading_open" \/ tokens[i].type = "fence" THEN ""
  ELSE DescriptionWalk(tokens, i - 1)

extractSnippetDescription(tokens, fenceIndex) == DescriptionWalk(tokens, fenceIndex - 1)

\* null (None) for a fence without content, else the snippet
extractSnippetFromToken(fenceToken, tokens, tokenIndex, lastHeading, snippetCount, filePath) ==
  IF fenceToken.content = "" THEN None
  ELSE Some([title |-> Trim(IF lastHeading # "" THEN lastHeading
                            ELSE "Snippet " \o NumToString(snippetCount)),
             description |-> Trim(extractSnippetDescription(tokens, tokenIndex)),
             source |-> filePath,
             language |-> Trim(IF fenceToken.info # "" THEN fenceToken.info ELSE "text"),
             code |-> Trim(fenceToken.content)])

\* the for loop of extractSnippetsFromTokens, from index i on.  A token is a
\* heading_open, a fence, or neither; the snippet of a fence is pushed and
\* counted when there is one (None has length 0, Some(s) is the list of s).
RECURSIVE ExtractLoop(_, _, _, _, _, _)

\* the loop after the fence at i, whose snippet (or None) is given
PushSnippet(tokens, filePath, i, lastHeading, snippetCount, snippets, snippet) ==
  ExtractLoop(tokens, filePath, i + 1, lastHeading, snippetCount + Len(snippet),
              snippets \o snippet)

ExtractLoop(tokens, filePath, i, lastHeading, snippetCount, snippets) ==
  IF i > Len(tokens) THEN snippets
  ELSE IF tokens[i].type = "heading_open"
       THEN ExtractLoop(tokens, filePath, i + 1, extractHeadingText(tokens, i), snippetCount,
                        snippets)
  ELSE IF tokens[i].type = "fence"
       THEN PushSnippet(tokens, filePath, i, lastHeading, snippetCount, snippets,
                        extractSnippetFromToken(tokens[i], tokens, i, lastHeading,
                                                snippetCount, filePath))
  ELSE ExtractLoop(tokens, filePath, i + 1, lastHeading, snippetCount, snippets)

extractSnippetsFromTokens(tokens, filePath) == ExtractLoop(tokens, filePath, 1, "", 1, <<>>)

\* a token object without content field: token.content is undefined, and
\* token.content.trim() throws a TypeError
NoContent(token) == "content" \notin DOMAIN token

\* extractHeadingText throws: the token after the heading is an inline token
\* without content
HeadingTextThrows(tokens, headingIndex) ==
  /\ headingIndex + 1 <= Len(tokens)
  /\ tokens[headingIndex + 1].type = "inline"
  /\ NoContent(tokens[headingIndex + 1])

\* the backward walk from the fence throws: it comes to an inline token
\* without content before it returns or breaks
RECURSIVE DescriptionWalkThrows(_, _)
DescriptionWalkThrows(tokens, i) ==
  IF i < 1 THEN FALSE
  ELSE IF tokens[i].type = "inline" /\ NoContent(tokens[i]) THEN TRUE
  ELSE IF tokens[i].type = "inline" /\ Trim(tokens[i].content) # "" THEN FALSE
  ELSE IF tokens[i].type = "paragraph_open" THEN DescriptionWalkThrows(tokens, i - 1)
  ELSE IF tokens[i].type = "heading_open" \/ tokens[i].type = "fence" THEN FALSE
  ELSE DescriptionWalkThrows(tokens, i - 1)

\* extractSnippetFromToken throws: the fence has content (a fence without
\* content field, or with empty content, returns null before the walk)
SnippetFromTokenThrows(tokens, tokenIndex) ==
  /\ ~NoContent(tokens[tokenIndex])
  /\ tokens[tokenIndex].content # ""
  /\ DescriptionWalkThrows(tokens, tokenIndex - 1)

\* the for loop of extractSnippetsFromTokens throws at some token
ExtractThrows(tokens) ==
  \E i \in 1..Len(tokens) :
    IF tokens[i].type = "heading_open" THEN HeadingTextThrows(tokens, i)
    ELSE IF tokens[i].type = "fence" THEN SnippetFromTokenThrows(tokens, i)
    ELSE FALSE

\* The backquote: the module's strings cannot hold that character, so the
\* apostrophe stands for it wherever the code writes one.
Backquote == "'"
FenceMark == Backquote \o Backquote \o Backquote

\* snippet.language || 'text'
LanguageOrText(snippet) == IF snippet.language # "" THEN snippet.language ELSE "text"

formatSnippet(snippet) ==
  IF snippet.title = "" \/ snippet.code = "" THEN ""
  ELSE JoinLines(<<"TITLE: " \o snippet.title,
                   "DESCRIPTION: " \o snippet.description,
                   "SOURCE: " \o snippet.source,
                   "LANGUAGE: " \o LanguageOrText(snippet),
                   "CODE:",
                   FenceMark \o LanguageOrText(snippet),
                   snippet.code,
                   FenceMark,
                   "",
                   "----------------------------------------">>, "\n")

(***************************************************************************)
(* Output formatter (formatters/output-formatter.js).                      *)
(* options is [format, alwaysApply, applyGlob] with optional flag/pattern. *)
(***************************************************************************)
extractDescription(outputInfo) ==
  IF outputInfo.outputFileName # "" THEN outputInfo.outputFileName ELSE "Generated LLM rules"

\* the rule line of the frontmatter: the glob if there is one, else alwaysApply
RuleLine(options) ==
  IF IsSome(options.applyGlob) /\ Val(options.applyGlob) # ""
  THEN "glob: \"" \o Val(options.applyGlob) \o "\""
  ELSE IF options.alwaysApply # Some(FALSE) THEN "alwaysApply: true" ELSE "alwaysApply: false"

generateMdcFrontmatter(outputInfo, options) ==
  JoinLines(<<"---", "description: " \o extractDescription(outputInfo), RuleLine(options),
              "---", "">>, "\n")

\* an at-tag that is left alone only when it begins with @
generateAtTagByPrefix(atTag) ==
  IF atTag = "" THEN ""
  ELSE IF StartsWith(atTag, "@") THEN atTag ELSE "@" \o atTag

generateAtTag(atTag) ==
  IF atTag = "" THEN ""
  ELSE IF Includes(atTag, "@") THEN atTag ELSE "@" \o atTag

generateOutputContent(snippets, outputInfo, format, options) ==
  IF Len(snippets) = 0 THEN ""
  ELSE (IF format = "mdc" THEN generateMdcFrontmatter(outputInfo, options) ELSE "")
       \o JoinLines([i \in 1..Len(snippets) |-> formatSnippet(snippets[i])], "\n\n")
       \o "\n" \o generateAtTag(outputInfo.atTag) \o "\n"

(***************************************************************************)
(* Option validator (cli/option-validator.js).                             *)
(* Raw command line options: [format, sourceUrl, alwaysApply, applyGlob];  *)
(* format and sourceUrl are strings ("" when not given), alwaysApply is an *)
(* optional boolean, applyGlob an optional string (None is undefined).     *)
(* A validation result is [ok, error, value]: ok is FALSE when the         *)
(* validator threw.  The exclude option goes to the collector only.        *)
(***************************************************************************)
VALID_FORMATS == <<"md", "mdc">>

DEFAULTS == [format |-> "md", sourceUrl |-> None, alwaysApply |-> None, applyGlob |-> None]

Accepted(v) == [ok |-> TRUE, error |-> "", value |-> v]
Rejected(e) == [ok |-> FALSE, error |-> e, value |-> DEFAULTS]

\* a validation of the URL that takes any scheme
validateSourceUrlAnyScheme(url) ==
  IF url = "" THEN Accepted(None)
  ELSE Accepted(Some(IF EndsWith(url, "/") THEN url ELSE url \o "/"))

\* a validation of the URL that appends "/" to every URL
validateSourceUrlSlashAdded(url) ==
  IF url = "" THEN Accepted(None)
  ELSE IF ~StartsWith(url, "http://") /\ ~StartsWith(url, "https://")
       THEN Rejected("Invalid source URL")
  ELSE Accepted(Some(url \o "/"))

\* the normalized URL, or a rejection
validateSourceUrl(url) ==
  IF url = "" THEN Accepted(None)
  ELSE IF ~StartsWith(url, "http://") /\ ~StartsWith(url, "https://")
       THEN Rejected("Invalid source URL")
  ELSE Accepted(Some(IF EndsWith(url, "/") THEN url ELSE url \o "/"))

\* validated.alwaysApply once the flag of the options is handled
AlwaysApplyOf(options, validated) ==
  IF options.alwaysApply = Some(TRUE) THEN Some(TRUE)
  ELSE IF options.alwaysApply = Some(FALSE) THEN Some(FALSE)
  ELSE validated.alwaysApply

\* validated.applyGlob once a valid pattern of the options is handled
ApplyGlobOf(options, validated) ==
  IF IsSome(options.applyGlob) THEN Some(Trim(Val(options.applyGlob)))
  ELSE validated.applyGlob

\* a validation of the mdc options that lets a flag and a pattern go together
validateMdcOptionsBoth(options, validated) ==
  IF IsSome(options.applyGlob) /\ Len(Trim(Val(options.applyGlob))) = 0
  THEN Rejected("Invalid apply-glob pattern")
  ELSE Accepted([validated EXCEPT !.alwaysApply = AlwaysApplyOf(options, validated),
                                  !.applyGlob = ApplyGlobOf(options, validated)])

\* validated with its alwaysApply / applyGlob set, or a rejection
validateMdcOptions(options, validated) ==
  IF IsSome(options.applyGlob) /\ Len(Trim(Val(options.applyGlob))) = 0
  THEN Rejected("Invalid apply-glob pattern")
  ELSE IF /\ AlwaysApplyOf(options, validated) # None
          /\ IsSome(ApplyGlobOf(options, validated))
          /\ Val(ApplyGlobOf(options, validated)) # ""
       THEN Rejected("Cannot use both")
  ELSE Accepted([validated EXCEPT !.alwaysApply = AlwaysApplyOf(options, validated),
                                  !.applyGlob = ApplyGlobOf(options, validated)])

\* validated once a valid format of the options is set
WithFormat(options) ==
  IF options.format # "" THEN [DEFAULTS EXCEPT !.format = options.format] ELSE DEFAULTS

\* the validation of the source URL of the options, if they have one
SourceUrlOf(options) ==
  IF options.sourceUrl # "" THEN validateSourceUrl(options.sourceUrl)
  ELSE Accepted(DEFAULTS.sourceUrl)

validateOptions(options) ==
  IF options.format # "" /\ ~Contains(VALID_FORMATS, options.format)
  THEN Rejected("Invalid format")
  ELSE IF ~SourceUrlOf(options).ok THEN SourceUrlOf(options)
  ELSE validateMdcOptions(options,
                          [WithFormat(options) EXCEPT !.sourceUrl = SourceUrlOf(options).value])

(***************************************************************************)
(* Source URL manager (utils/source-url-manager.js).                       *)
(***************************************************************************)
\* the working directory of the process (process.cwd())
repoRoot == PathSep \o "repo"

\* path.relative(from, to) for a path that is relative or inside from
Relative(from, to) ==
  IF StartsWith(to, from \o PathSep) THEN SubSeq(to, Len(from) + 2, Len(to)) ELSE to

\* fs.existsSync of a package.json; manifests names the files by their path
\* from the working directory
existsSync(path) == Relative(repoRoot, path) \in DOMAIN manifests

\* JSON.parse of the content of a manifest, None when it throws
JsonParse(manifest) ==
  IF manifest.state = "malformed" THEN None
  ELSE Some([name |-> manifest.name, homepage |-> manifest.homepage,
             repository |-> manifest.repository])

\* the parsed manifest, None when the file is missing or is not JSON
readPackageJson(packageJsonPath) ==
  IF ~existsSync(packageJsonPath) THEN None
  ELSE JsonParse(manifests[Relative(repoRoot, packageJsonPath)])

\* pkgName.match(/^(@[^/]+)\/(.+)$/)
\* the match with the first "/" of pkgName at index slash (0: it has none)
ScopeAndNameAt(pkgName, slash) ==
  IF StartsWith(pkgName, "@") /\ slash >= 3 /\ slash < Len(pkgName)
  THEN [scope |-> Some(SubSeq(pkgName, 1, slash - 1)),
        name |-> SubSeq(pkgName, slash + 1, Len(pkgName))]
  ELSE [scope |-> None, name |-> pkgName]

\* A JSON value that is a number is written "number:" and its digits, which
\* no package name is (a name holds no ":"); every other value is a string.
NumberValue(n) == "number:" \o NumToString(n)

\* typeof value === 'string'
IsString(value) == ~StartsWith(value, "number:")

getScopeAndName(pkgName) ==
  IF pkgName = "" \/ ~IsString(pkgName) THEN [scope |-> None, name |-> ""]
  ELSE ScopeAndNameAt(pkgName, IndexOf(pkgName, "/"))

getRelativePath(filePath) == ReplaceAll(Relative(repoRoot, filePath), "\\", "/")

\* the package name the pattern captures in rest, the text after
\* "node_modules/", whose first "/" is at s1 and whose next one is s2 further
PackageNameAt(rest, s1, s2) ==
  IF s1 <= 1 THEN None
  ELSE IF StartsWith(rest, "@") /\ s1 >= 3 /\ s2 >= 2 THEN Some(SubSeq(rest, 1, s1 + s2 - 1))
  ELSE Some(SubSeq(rest, 1, s1 - 1))

\* relativePath.match(/^node_modules\/(@[^/]+\/[^/]+|[^/]+)\/(.*)$/): the
\* package name, None without a match
NodeModulesPackage(relativePath) ==
  IF ~StartsWith(relativePath, "node_modules/") THEN None
  ELSE PackageNameAt(SubSeq(relativePath, 14, Len(relativePath)),
                     IndexOf(SubSeq(relativePath, 14, Len(relativePath)), "/"),
                     IndexOf(SubSeq(relativePath,
                                    14 + IndexOf(SubSeq(relativePath, 14, Len(relativePath)), "/"),
                                    Len(relativePath)), "/"))

\* the homepage, else the repository, of the manifest at the path; None when
\* it is missing, does not parse or has neither
ManifestSourceUrl(packageJsonPath) ==
  IF ~IsSome(readPackageJson(packageJsonPath)) THEN None
  ELSE IF Val(readPackageJson(packageJsonPath)).homepage # ""
       THEN Some(Val(readPackageJson(packageJsonPath)).homepage)
  ELSE IF Val(readPackageJson(packageJsonPath)).repository # ""
       THEN Some(Val(readPackageJson(packageJsonPath)).repository)
  ELSE None

getNodeModulesSourceUrl(filePath) ==
  IF ~IsSome(NodeModulesPackage(getRelativePath(filePath))) THEN None
  ELSE ManifestSourceUrl(
         PathJoin(PathJoin(PathJoin(repoRoot, "node_modules"),
                           Val(NodeModulesPackage(getRelativePath(filePath)))),
                  "package.json"))

getSourceUrl(filePath) ==
  IF filePath = "" THEN ""
  ELSE IF IsSome(env) /\ Val(env) # "" THEN Val(env) \o getRelativePath(filePath)
  ELSE IF IsSome(getNodeModulesSourceUrl(filePath)) THEN Val(getNodeModulesSourceUrl(filePath))
  ELSE getRelativePath(filePath)

(***************************************************************************)
(* Package grouper (utils/package-grouper.js).                             *)
(* A package context is [packageJsonPath, packageJson, packageDir]; a      *)
(* package group is [packageInfo, files].                                  *)
(***************************************************************************)
\* a context taken from every manifest that parses, named or not
ContextFromParsed(packageJson, packageJsonPath, dir) ==
  IF IsSome(packageJson)
  THEN Some([packageJsonPath |-> packageJsonPath,
             packageJson |-> Val(packageJson),
             packageDir |-> dir])
  ELSE None

\* the context the manifest at packageJsonPath gives the directory, None
\* unless the manifest exists, parses and has a name
ContextFrom(packageJson, packageJsonPath, dir) ==
  IF IsSome(packageJson) /\ Val(packageJson).name # ""
  THEN Some([packageJsonPath |-> packageJsonPath,
             packageJson |-> Val(packageJson),
             packageDir |-> dir])
  ELSE None

ContextOf(packageJsonPath, dir) ==
  IF existsSync(packageJsonPath)
  THEN ContextFrom(readPackageJson(packageJsonPath), packageJsonPath, dir)
  ELSE None

ContextAt(dir) == ContextOf(PathJoin(dir, "package.json"), dir)

\* the while loop of checkParentDirectories at (currentDir, depth)
RECURSIVE ParentWalk(_, _, _)

\* the first of two optional contexts that is there
OrElse(context, other) == IF IsSome(context) THEN context ELSE other

\* one turn of the loop, parentDir being the directory above currentDir
ParentStep(currentDir, parentDir, depth, maxDepth) ==
  IF parentDir = currentDir THEN None
  ELSE OrElse(ContextAt(parentDir), ParentWalk(parentDir, depth + 1, maxDepth))

ParentWalk(currentDir, depth, maxDepth) ==
  IF depth >= maxDepth THEN None
  ELSE ParentStep(currentDir, Dirname(currentDir), depth, maxDepth)

checkParentDirectories(startDir, maxDepth) == ParentWalk(startDir, 0, maxDepth)

\* the depth getPackageContext passes to checkParentDirectories
ParentSearchDepth == 3

\* getPackageContext for the directory of the file
ContextFor(fileDir) ==
  OrElse(ContextAt(fileDir), checkParentDirectories(fileDir, ParentSearchDepth))

getPackageContext(filePath) == ContextFor(Dirname(filePath))

\* the index of the group keyed by key, 0 when the map has none
GroupIndex(groups, key) ==
  IF \E i \in 1..Len(groups) : groups[i].packageInfo.packageJsonPath = key
  THEN CHOOSE i \in 1..Len(groups) : groups[i].packageInfo.packageJsonPath = key
  ELSE 0

\* the map with filePath pushed on the group of the context, which is made
\* first when the map has none for its packageJsonPath
AddAt(groups, index, packageContext, filePath) ==
  IF index = 0
  THEN Append(groups, [packageInfo |-> packageContext, files |-> <<filePath>>])
  ELSE [groups EXCEPT ![index].files = Append(@, filePath)]

\* the index of the group of the package name, 0 when the map has none
GroupIndexByName(groups, name) ==
  IF \E i \in 1..Len(groups) : groups[i].packageInfo.packageJson.name = name
  THEN CHOOSE i \in 1..Len(groups) : groups[i].packageInfo.packageJson.name = name
  ELSE 0

\* a map keyed by the name of the package
AddToGroupByName(groups, packageContext, filePath) ==
  AddAt(groups, GroupIndexByName(groups, packageContext.packageJson.name), packageContext,
        filePath)

AddToGroup(groups, packageContext, filePath) ==
  AddAt(groups, GroupIndex(groups, packageContext.packageJsonPath), packageContext, filePath)

\* the for loop of groupFilesByPackage from file i on
RECURSIVE GroupLoop(_, _, _, _)

\* a turn of the loop that forgets a file without package context
GroupStepPackagesOnly(files, i, groups, standalone, packageContext) ==
  IF IsSome(packageContext)
  THEN GroupLoop(files, i + 1, AddToGroup(groups, Val(packageContext), files[i]), standalone)
  ELSE GroupLoop(files, i + 1, groups, standalone)

\* one turn of the loop, for the file at i and its package context
GroupStep(files, i, groups, standalone, packageContext) ==
  IF IsSome(packageContext)
  THEN GroupLoop(files, i + 1, AddToGroup(groups, Val(packageContext), files[i]), standalone)
  ELSE GroupLoop(files, i + 1, groups, Append(standalone, files[i]))

GroupLoop(files, i, groups, standalone) ==
  IF i > Len(files) THEN [packageGroups |-> groups, standaloneFiles |-> standalone]
  ELSE GroupStep(files, i, groups, standalone, getPackageContext(files[i]))

groupFilesByPackage(files) == GroupLoop(files, 1, <<>>, <<>>)

\* a test that takes every group for a group of several files
hasAnyMarkdownFiles(packageGroup) == Len(packageGroup.files) > 0

hasMultipleMarkdownFiles(packageGroup) == Len(packageGroup.files) > 1

(***************************************************************************)
(* Markdown processor (processors/markdown-processor.js).                  *)
(* The functions that touch the file system yield an effect:               *)
(* [ok, reads, dirs, writes] -- whether the call returned (FALSE: it       *)
(* threw), the files it read, the directories it asked createDirectory     *)
(* for, and the files it wrote, each in order.  A write is                 *)
(* [file, path, content, info]: the source file, the output path, the      *)
(* text written and the OutputInfo it was made from.                       *)
(***************************************************************************)
Effect(ok, reads, dirs, writes) == [ok |-> ok, reads |-> reads, dirs |-> dirs, writes |-> writes]

\* the second effect after the first; nothing of the second when the first threw
Then(e1, e2) ==
  IF ~e1.ok THEN e1
  ELSE Effect(e2.ok, e1.reads \o e2.reads, e1.dirs \o e2.dirs, e1.writes \o e2.writes)

\* a format string or an options object, as the formatOrOptions parameter takes
FormatArg(format) == [kind |-> "string", format |-> format,
                      alwaysApply |-> None, applyGlob |-> None]
OptionsArg(options) == [kind |-> "object", format |-> options.format,
                        alwaysApply |-> options.alwaysApply, applyGlob |-> options.applyGlob]

normalizeFormatOrOptions(formatOrOptions) ==
  IF formatOrOptions.kind = "string"
  THEN [format |-> formatOrOptions.format, alwaysApply |-> None, applyGlob |-> None]
  ELSE [format |-> IF formatOrOptions.format # "" THEN formatOrOptions.format ELSE "md",
        alwaysApply |-> formatOrOptions.alwaysApply,
        applyGlob |-> formatOrOptions.applyGlob]

isPackageReadme(filePath) == Basename(filePath) = "README.md"

\* the parsed name of the manifest beside the file, None without a manifest
\* that parses and has a name
PackageInfoOf(packageJson) ==
  IF ~IsSome(packageJson) \/ Val(packageJson).name = "" THEN None
  ELSE Some(getScopeAndName(Val(packageJson).name))

extractPackageInfo(filePath) ==
  PackageInfoOf(readPackageJson(PathJoin(Dirname(filePath), "package.json")))

\* outputExt
OutputExt(format) == IF format = "mdc" THEN ".mdc" ELSE ".md"

\* a scope directory named without the "@" of the scope
ScopedDirBare(rulesDir, packageInfo) ==
  IF IsSome(packageInfo) /\ IsSome(Val(packageInfo).scope)
  THEN PathJoin(rulesDir, SubSeq(Val(Val(packageInfo).scope), 2,
                                 Len(Val(Val(packageInfo).scope))))
  ELSE rulesDir

\* outputDir: the directory of the scope under rulesDir for the README of a
\* scoped package, else rulesDir
ScopedDir(rulesDir, packageInfo) ==
  IF IsSome(packageInfo) /\ IsSome(Val(packageInfo).scope)
  THEN PathJoin(rulesDir, Val(Val(packageInfo).scope))
  ELSE rulesDir

\* outputFileName and atTag: the package name for a package README
NameOr(packageInfo, fileNameWithoutExt) ==
  IF IsSome(packageInfo) THEN Val(packageInfo).name ELSE fileNameWithoutExt

\* the OutputInfo for the packageInfo found (None: not a README.md, or no
\* manifest to name it); mkdirs are the directories createDirectory is asked for
OutputInfoFor(filePath, rulesDir, format, fileNameWithoutExt, packageInfo) ==
  [outputPath |-> PathJoin(ScopedDir(rulesDir, packageInfo),
                           NameOr(packageInfo, fileNameWithoutExt) \o OutputExt(format)),
   outputDir |-> ScopedDir(rulesDir, packageInfo),
   outputFileName |-> NameOr(packageInfo, fileNameWithoutExt),
   atTag |-> NameOr(packageInfo, fileNameWithoutExt),
   source |-> getSourceUrl(filePath),
   mkdirs |-> IF IsSome(packageInfo) /\ IsSome(Val(packageInfo).scope)
              THEN <<ScopedDir(rulesDir, packageInfo)>> ELSE <<>>]

determineOutputInfo(filePath, rulesDir, format) ==
  OutputInfoFor(filePath, rulesDir, format, BasenameExt(filePath, ".md"),
                IF isPackageReadme(filePath) THEN extractPackageInfo(filePath) ELSE None)

\* readMarkdownFile followed by md.parse: the tokens, None when the read throws
readMarkdownFile(filePath) == IF filePath \in unreadable THEN None ELSE Some(docs[filePath])

\* writeOutputFile for the output of the source file: the directory of the
\* output is made, then the write succeeds or throws
writeOutputFile(filePath, outputInfo, content) ==
  IF filePath \in unwritable
  THEN Effect(FALSE, <<>>, <<Dirname(outputInfo.outputPath)>>, <<>>)
  ELSE Effect(TRUE, <<>>, <<Dirname(outputInfo.outputPath)>>,
              <<[file |-> filePath, path |-> outputInfo.outputPath,
                 content |-> content, info |-> outputInfo]>>)

\* the content of the snippets is generated and written
WriteSnippets(filePath, snippets, options, outputInfo) ==
  Then(Effect(TRUE, <<>>, outputInfo.mkdirs, <<>>),
       writeOutputFile(filePath, outputInfo,
                       generateOutputContent(snippets, outputInfo, options.format, options)))

\* processMarkdownFile once the snippets are extracted
ProcessSnippets(filePath, rulesDir, options, snippets) ==
  IF Len(snippets) = 0 THEN Effect(TRUE, <<>>, <<>>, <<>>)
  ELSE WriteSnippets(filePath, snippets, options,
                     determineOutputInfo(filePath, rulesDir, options.format))

processMarkdownFile(filePath, rulesDir, formatOrOptions) ==
  IF filePath = "" \/ rulesDir = "" THEN Effect(FALSE, <<>>, <<>>, <<>>)
  ELSE IF ~IsSome(readMarkdownFile(filePath)) THEN Effect(FALSE, <<filePath>>, <<>>, <<>>)
  ELSE Then(Effect(TRUE, <<filePath>>, <<>>, <<>>),
            ProcessSnippets(filePath, rulesDir, normalizeFormatOrOptions(formatOrOptions),
                            extractSnippetsFromTokens(Val(readMarkdownFile(filePath)),
                                                      filePath)))

\* determinePackageOutputInfo for the parsed name of the manifest
PackageOutputInfoFor(rulesDir, format, packageInfo) ==
  [packageDir |-> IF IsSome(packageInfo.scope)
                  THEN PathJoin(PathJoin(rulesDir, Val(packageInfo.scope)), packageInfo.name)
                  ELSE PathJoin(rulesDir, packageInfo.name),
   packageName |-> packageInfo.name,
   packageScope |-> packageInfo.scope,
   format |-> format]

determinePackageOutputInfo(packageJson, rulesDir, format) ==
  PackageOutputInfoFor(rulesDir, format, getScopeAndName(packageJson.name))

\* the outputInfo of a file of a package directory
PackageFileOutputInfo(filePath, packageOutputInfo, format, fileNameWithoutExt) ==
  [outputPath |-> PathJoin(packageOutputInfo.packageDir,
                           fileNameWithoutExt \o OutputExt(format)),
   outputDir |-> packageOutputInfo.packageDir,
   outputFileName |-> fileNameWithoutExt,
   atTag |-> fileNameWithoutExt,
   source |-> getSourceUrl(filePath),
   mkdirs |-> <<>>]

\* processFileInPackageDirectory once the snippets are extracted
ProcessPackageSnippets(filePath, packageOutputInfo, options, snippets) ==
  IF Len(snippets) = 0 THEN Effect(TRUE, <<>>, <<>>, <<>>)
  ELSE WriteSnippets(filePath, snippets, options,
                     PackageFileOutputInfo(filePath, packageOutputInfo, options.format,
                                           BasenameExt(filePath, ".md")))

processFileInPackageDirectory(filePath, packageOutputInfo, formatOrOptions) ==
  IF ~IsSome(readMarkdownFile(filePath)) THEN Effect(FALSE, <<filePath>>, <<>>, <<>>)
  ELSE Then(Effect(TRUE, <<filePath>>, <<>>, <<>>),
            ProcessPackageSnippets(filePath, packageOutputInfo,
                                   normalizeFormatOrOptions(formatOrOptions),
                                   extractSnippetsFromTokens(Val(readMarkdownFile(filePath)),
                                                             filePath)))

\* the for loop over the files of a package, from file i on: a file that
\* throws ends it
RECURSIVE PackageLoop(_, _, _, _)
PackageLoop(files, i, packageOutputInfo, options) ==
  IF i > Len(files) THEN Effect(TRUE, <<>>, <<>>, <<>>)
  ELSE Then(processFileInPackageDirectory(files[i], packageOutputInfo, OptionsArg(options)),
            PackageLoop(files, i + 1, packageOutputInfo, options))

\* the package directory is made and the files are processed into it
ProcessPackageFiles(files, packageOutputInfo, options) ==
  Then(Effect(TRUE, <<>>, <<packageOutputInfo.packageDir>>, <<>>),
       PackageLoop(files, 1, packageOutputInfo, options))

\* processPackageMarkdownFiles once the options are normalized
ProcessPackageWith(packageGroup, rulesDir, options) ==
  IF ~hasMultipleMarkdownFiles(packageGroup)
  THEN processMarkdownFile(packageGroup.files[1], rulesDir, OptionsArg(options))
  ELSE ProcessPackageFiles(packageGroup.files,
                           determinePackageOutputInfo(packageGroup.packageInfo.packageJson,
                                                      rulesDir, options.format),
                           options)

processPackageMarkdownFiles(packageGroup, rulesDir, formatOrOptions) ==
  IF rulesDir = "" THEN Effect(FALSE, <<>>, <<>>, <<>>)
  ELSE ProcessPackageWith(packageGroup, rulesDir, normalizeFormatOrOptions(formatOrOptions))

(***************************************************************************)
(* Conversion processor (core/conversion-processor.js).                    *)
(***************************************************************************)
excludedFiles == <<"CHANGELOG.md", "CONTRIBUTING.md", "CODE_OF_CONDUCT.md", "SECURITY.md",
                   "LICENSE.md">>

\* filePath.split('/').pop()
SplitPop(filePath) == SubSeq(filePath, LastIndexOf(filePath, "/") + 1, Len(filePath))

filterDocumentationFiles(files) ==
  SelectSeq(files, LAMBDA filePath : ~Contains(excludedFiles, SplitPop(filePath)))

\* collectMarkdownFiles is the collector's answer, markdownFiles
getFilteredFiles == filterDocumentationFiles(markdownFiles)

\* the <dest> argument of the command line
dest == "out"

\* a catch that counts the failure of the item and ends the run with it
TryItemRethrow(e, n) ==
  [processedCount |-> IF e.ok THEN processedCount + n ELSE processedCount,
   errorCount |-> IF e.ok THEN errorCount ELSE errorCount + n,
   pc |-> IF e.ok THEN "processGroupedFiles" ELSE "conversion_failed"]

\* a catch that counts one failure for the item, whatever its number of files
TryItemOneError(e, n) ==
  [processedCount |-> IF e.ok THEN processedCount + n ELSE processedCount,
   errorCount |-> IF e.ok THEN errorCount ELSE errorCount + 1,
   pc |-> "processGroupedFiles"]

\* one pass of a try / catch of processGroupedFiles around an item of n files
\* whose processing had the effect e: the counters, and where the run goes on
TryItem(e, n) ==
  [processedCount |-> IF e.ok THEN processedCount + n ELSE processedCount,
   errorCount |-> IF e.ok THEN errorCount ELSE errorCount + n,
   pc |-> "processGroupedFiles"]

\* what processGroupedFiles hands the processors for formatOrOptions
ProcessorOptions == FormatArg(validatedOptions.format)

(***************************************************************************)
(* The runs explored: the platform, the files the collector found, their   *)
(* content, the manifests on disk, the reads and writes that fail, and the *)
(* options of the command line.                                            *)
(***************************************************************************)
\* the longest list of collected files
MaxFiles == 2

\* the most files whose read or write fails
MaxFaults == 1

Platforms == {"posix", "win32"}

\* the path of the segments on the platform, as path.join of the collector spells it
NativePath(segments) == JoinLines(segments, PathSep)

\* "# Title", a paragraph "Some desc." and a js block
ExampleDoc ==
  <<Token("heading_open", "", ""), Token("inline", "Title", ""), Token("heading_close", "", ""),
    Token("paragraph_open", "", ""), Token("inline", "Some desc.", ""),
    Token("paragraph_close", "", ""), Token("fence", "console.log(1);\n", "js")>>

\* two blocks and no heading
TwoFenceDoc == <<Token("fence", "a = 1\n", "py"), Token("fence", "b = 2\n", "")>>

\* "# Setup" and a block holding one empty line
BlankFenceDoc ==
  <<Token("heading_open", "", ""), Token("inline", "Setup", ""), Token("heading_close", "", ""),
    Token("fence", "\n", "")>>

\* "# Notes" and a paragraph: no block
NoFenceDoc ==
  <<Token("heading_open", "", ""), Token("inline", "Notes", ""), Token("heading_close", "", ""),
    Token("paragraph_open", "", ""), Token("inline", "Nothing here.", ""),
    Token("paragraph_close", "", "")>>

\* a block without content, then "# Run" and a block
MixedDoc ==
  <<Token("fence", "", "sh"), Token("heading_open", "", ""), Token("inline", "Run", ""),
    Token("heading_close", "", ""), Token("fence", "run()\n", "")>>

\* the markdown files of the tree, with what md.parse gives for each
Documents ==
  {[path |-> <<"pkg", "README.md">>, tokens |-> ExampleDoc],
   [path |-> <<"pkg", "guide.md">>, tokens |-> TwoFenceDoc],
   [path |-> <<"pkg", "CHANGELOG.md">>, tokens |-> ExampleDoc],
   [path |-> <<"app", "README.md">>, tokens |-> BlankFenceDoc],
   [path |-> <<"app", "api.markdown">>, tokens |-> ExampleDoc],
   [path |-> <<"notes", "changelog.md">>, tokens |-> NoFenceDoc],
   [path |-> <<"notes", "GUIDE.MD">>, tokens |-> MixedDoc]}

Files == {NativePath(d.path) : d \in Documents}

\* what md.parse gives for each file of the tree, by its path with the separator
TokensBy(sep) ==
  [f \in {JoinLines(d.path, sep) : d \in Documents} |->
     (CHOOSE d \in Documents : JoinLines(d.path, sep) = f).tokens]

PosixTokens == TokensBy("/")
Win32Tokens == TokensBy("\\")

\* what md.parse gives for each of the files
DocsOf(files) == [f \in files |-> IF platform = "win32" THEN Win32Tokens[f] ELSE PosixTokens[f]]

\* isMarkdownFile of the collector (utils/file-collector.js)
isMarkdownFile(fileName) ==
  EndsWith(toLowerCase(fileName), ".md") \/ EndsWith(toLowerCase(fileName), ".markdown")

\* the lists of n distinct files that the collector takes for markdown files
ListsOfLen(n) ==
  {l \in [1..n -> Files] : /\ \A i, j \in 1..n : i # j => l[i] # l[j]
                            /\ \A k \in 1..n : isMarkdownFile(Basename(l[k]))}

FileLists == UNION {ListsOfLen(n) : n \in 0..MaxFiles}

\* a package.json that parses, with the name; one that does not parse
Named(name) == [state |-> "ok", name |-> name, homepage |-> "", repository |-> ""]
Malformed == [state |-> "malformed", name |-> "", homepage |-> "", repository |-> ""]

\* the manifests of a set of <<directory segments, manifest>> pairs, by path
Layout(pairs) ==
  [p \in {NativePath(x[1] \o <<"package.json">>) : x \in pairs} |->
     (CHOOSE x \in pairs : NativePath(x[1] \o <<"package.json">>) = p)[2]]

ManifestLayouts ==
  {Layout({<<<<"pkg">>, Named("@acme/ui")>>, <<<<"app">>, Named("tool")>>}),
   Layout({<<<<"pkg">>, Named("tool")>>, <<<<"app">>, Named("tool")>>}),
   Layout({<<<<"pkg">>, Malformed>>, <<<<>>, Named("mono")>>}),
   Layout({})}

RawOption(format, sourceUrl, alwaysApply, applyGlob) ==
  [format |-> format, sourceUrl |-> sourceUrl, alwaysApply |-> alwaysApply,
   applyGlob |-> applyGlob]

\* the command lines of the conversions explored in depth
OptionProfiles ==
  {RawOption("md", "", None, None),
   RawOption("mdc", "https://h/r", None, Some("*.ts")),
   RawOption("mdc", "", Some(FALSE), None),
   RawOption("html", "", None, None)}

\* every combination of option values, valid and not
RawOptions ==
  {RawOption(f, u, a, g) : f \in {"", "md", "mdc", "html"},
                           u \in {"", "https://h/r", "ftp://h/r"},
                           a \in {None, Some(TRUE), Some(FALSE)},
                           g \in {None, Some("*.ts"), Some(" ")}}

\* the process before handleConvertCommand runs
InitRun ==
  /\ env = None
  /\ pc = "handleConvertCommand"
  /\ validatedOptions = DEFAULTS
  /\ filteredFiles = <<>>
  /\ packageGroups = <<>>
  /\ standaloneFiles = <<>>
  /\ nextGroup = 1
  /\ nextFile = 1
  /\ processedCount = 0
  /\ errorCount = 0
  /\ createdDirs = {}
  /\ readLog = <<>>
  /\ written = <<>>

\* no function is called on its own in a run of the tool
NoCall == args = None /\ ret = None

Init ==
  /\ platform \in Platforms
  /\ manifests \in ManifestLayouts
  /\ markdownFiles \in FileLists
  /\ docs = DocsOf(Range(markdownFiles))
  /\ unreadable \in SUBSET Range(markdownFiles)
  /\ unwritable \in SUBSET (Range(markdownFiles) \ unreadable)
  /\ Cardinality(unreadable) + Cardinality(unwritable) <= MaxFaults
  /\ cliOptions \in OptionProfiles
  /\ InitRun
  /\ NoCall

\* every command line, over one small tree
InitCli ==
  /\ platform \in Platforms
  /\ manifests = Layout({<<<<"pkg">>, Named("@acme/ui")>>})
  /\ markdownFiles = <<NativePath(<<"pkg", "README.md">>), NativePath(<<"notes", "GUIDE.MD">>)>>
  /\ docs = DocsOf(Range(markdownFiles))
  /\ unreadable = {}
  /\ unwritable = {}
  /\ cliOptions \in RawOptions
  /\ InitRun
  /\ NoCall

(***************************************************************************)
(* The run.                                                                *)
(***************************************************************************)
\* handleConvertCommand up to its call of processConversion
HandleConvertCommand ==
  /\ pc = "handleConvertCommand"
  /\ \E result \in {validateOptions(cliOptions)} :
       IF ~result.ok
       THEN /\ pc' = "config_error"
            /\ UNCHANGED <<validatedOptions, env>>
       ELSE /\ validatedOptions' = result.value
            /\ env' = IF IsSome(result.value.sourceUrl) /\ Val(result.value.sourceUrl) # ""
                      THEN result.value.sourceUrl ELSE env
            /\ pc' = "processConversion"
  /\ UNCHANGED <<platform, markdownFiles, manifests, docs, unreadable, unwritable, cliOptions,
                 filteredFiles, packageGroups, standaloneFiles, nextGroup, nextFile,
                 processedCount, errorCount, createdDirs, readLog, written, args, ret>>

\* processConversion up to its call of processGroupedFiles, and the start of that
ProcessConversion ==
  /\ pc = "processConversion"
  /\ createdDirs' = createdDirs \cup {dest}
  /\ filteredFiles' = getFilteredFiles
  /\ \E grouped \in {groupFilesByPackage(getFilteredFiles)} :
       /\ packageGroups' = grouped.packageGroups
       /\ standaloneFiles' = grouped.standaloneFiles
  /\ nextGroup' = 1
  /\ nextFile' = 1
  /\ processedCount' = 0
  /\ errorCount' = 0
  /\ pc' = "processGroupedFiles"
  /\ UNCHANGED <<platform, markdownFiles, manifests, docs, unreadable, unwritable, cliOptions,
                 env, validatedOptions, readLog, written, args, ret>>

\* the state after an item of n files whose processing had the effect e
AfterItem(e, after) ==
  /\ readLog' = readLog \o e.reads
  /\ createdDirs' = createdDirs \cup Range(e.dirs)
  /\ written' = written \o e.writes
  /\ processedCount' = after.processedCount
  /\ errorCount' = after.errorCount
  /\ pc' = after.pc

\* one turn of the loop over the package groups
ProcessPackageGroup ==
  /\ pc = "processGroupedFiles"
  /\ nextGroup <= Len(packageGroups)
  /\ \E e \in {processPackageMarkdownFiles(packageGroups[nextGroup], dest, ProcessorOptions)} :
       AfterItem(e, TryItem(e, Len(packageGroups[nextGroup].files)))
  /\ nextGroup' = nextGroup + 1
  /\ UNCHANGED <<platform, markdownFiles, manifests, docs, unreadable, unwritable, cliOptions,
                 env, validatedOptions, filteredFiles, packageGroups, standaloneFiles, nextFile,
                 args, ret>>

\* one turn of the loop over the standalone files
ProcessStandaloneFile ==
  /\ pc = "processGroupedFiles"
  /\ nextGroup > Len(packageGroups)
  /\ nextFile <= Len(standaloneFiles)
  /\ \E e \in {processMarkdownFile(standaloneFiles[nextFile], dest, ProcessorOptions)} :
       AfterItem(e, TryItem(e, 1))
  /\ nextFile' = nextFile + 1
  /\ UNCHANGED <<platform, markdownFiles, manifests, docs, unreadable, unwritable, cliOptions,
                 env, validatedOptions, filteredFiles, packageGroups, standaloneFiles, nextGroup,
                 args, ret>>

\* processConversion after processGroupedFiles has returned its results
FinishConversion ==
  /\ pc = "processGroupedFiles"
  /\ nextGroup > Len(packageGroups)
  /\ nextFile > Len(standaloneFiles)
  /\ pc' = IF errorCount > 0 THEN "conversion_failed" ELSE "completed"
  /\ UNCHANGED <<platform, markdownFiles, manifests, docs, unreadable, unwritable, cliOptions,
                 env, validatedOptions, filteredFiles, packageGroups, standaloneFiles, nextGroup,
                 nextFile, processedCount, errorCount, createdDirs, readLog, written, args, ret>>

Next ==
  \/ HandleConvertCommand
  \/ ProcessConversion
  \/ ProcessPackageGroup
  \/ ProcessStandaloneFile
  \/ FinishConversion

Spec == Init /\ [][Next]_vars

SpecCli == InitCli /\ [][Next]_vars

(***************************************************************************)
(* Functions called on their own, as the unit tests call them: args holds  *)
(* the arguments, pc goes from "call" to "return", ret holds the result.   *)
(* Nothing of a run of the tool happens meanwhile.                         *)
(***************************************************************************)
\* no run of the tool: nothing collected, nothing on disk, default options
NoRun ==
  /\ markdownFiles = <<>>
  /\ docs = <<>>
  /\ unreadable = {}
  /\ unwritable = {}
  /\ cliOptions = RawOption("", "", None, None)
  /\ env = None
  /\ validatedOptions = DEFAULTS
  /\ filteredFiles = <<>>
  /\ packageGroups = <<>>
  /\ standaloneFiles = <<>>
  /\ nextGroup = 1
  /\ nextFile = 1
  /\ processedCount = 0
  /\ errorCount = 0
  /\ createdDirs = {}
  /\ readLog = <<>>
  /\ written = <<>>

\* the longest token array
MaxTokens == 4

\* the tokens of the arrays: a heading_open, inline tokens with text, with
\* white space only and with text around white space, a paragraph_open, and
\* fences with and without content and info
TokenKinds ==
  {Token("heading_open", "", ""),
   Token("inline", "Title", ""),
   Token("inline", "  ", ""),
   Token("inline", " Some text. ", ""),
   Token("paragraph_open", "", ""),
   Token("fence", "a = 1\n", "js"),
   Token("fence", "  b\n", " "),
   Token("fence", "", "sh"),
   Token("fence", "\n", "")}

\* an inline token object without content field
MalformedInline == [type |-> "inline", info |-> ""]

TokenArrays == UNION {[1..n -> TokenKinds \cup {MalformedInline}] : n \in 0..MaxTokens}

\* the calls of extractSnippetsFromTokens: with an array, and with null or
\* undefined for tokens (a call without tokens)
ExtractCalls ==
  {[fn |-> "extractSnippetsFromTokens", tokens |-> t, filePath |-> "docs/guide.md"] :
     t \in TokenArrays}
  \cup {[fn |-> "extractSnippetsFromTokens", filePath |-> "docs/guide.md"]}

\* the snippets given to formatSnippet: with and without title, description,
\* language and code; a title of two lines (a heading written over two
\* lines), a code of two lines, a code holding a line of three backquotes
\* (the content of a longer fence)
Snippets ==
  {[title |-> t, description |-> d, source |-> "docs/guide.md", language |-> l, code |-> c] :
     t \in {"", "Setup", "Set\nup"}, d \in {"", "How to."}, l \in {"", "js"},
     c \in {"", "a = 1", "a\nb", "a\n" \o FenceMark \o "\nb"}}

\* the calls of formatSnippet
FormatSnippetCalls == {[fn |-> "formatSnippet", snippet |-> s] : s \in Snippets}

\* the snippet lists given to generateOutputContent: none, one, two, one
\* without code, and one with code between one without title and one
\* without code
SnippetLists ==
  {<<>>,
   <<[title |-> "", description |-> "", source |-> "docs/guide.md",
      language |-> "js", code |-> "c"],
     [title |-> "Setup", description |-> "", source |-> "docs/guide.md",
      language |-> "js", code |-> "a = 1"],
     [title |-> "Usage", description |-> "", source |-> "docs/guide.md",
      language |-> "js", code |-> ""]>>,
   <<[title |-> "Setup", description |-> "How to.", source |-> "docs/guide.md",
      language |-> "js", code |-> "a = 1"]>>,
   <<[title |-> "Setup", description |-> "", source |-> "docs/guide.md",
      language |-> "js", code |-> "a = 1"],
     [title |-> "Snippet 2", description |-> "", source |-> "docs/guide.md",
      language |-> "text", code |-> "b"]>>,
   <<[title |-> "Setup", description |-> "", source |-> "docs/guide.md",
      language |-> "js", code |-> ""]>>}

\* the calls of generateOutputContent: output names with the at-tags of an
\* unscoped file, a scoped package and a tag with @ inside, and no tag; both
\* formats; every combination of the two rule options
GenerateCalls ==
  {[fn |-> "generateOutputContent", snippets |-> s,
    outputInfo |-> [outputFileName |-> n, atTag |-> t], format |-> f,
    options |-> [alwaysApply |-> a, applyGlob |-> g]] :
     s \in SnippetLists, n \in {"guide", "README"}, t \in {"", "guide", "@scope/pkg", "docs@2"},
     f \in {"md", "mdc"}, a \in {None, Some(TRUE), Some(FALSE)},
     g \in {None, Some("*.ts"), Some("")}}

\* the calls of validateOptions: no URL, http and https URLs with and without
\* the closing "/", URLs of another scheme and without scheme
ValidateCalls ==
  {[fn |-> "validateOptions", options |-> RawOption(f, u, a, g)] :
     f \in {"", "mdc", "html"},
     u \in {"", "https://h/r", "https://h/r/", "http://h", "http://h/", "ftp://h/r", "h/r/"},
     a \in {None, Some(TRUE)}, g \in {None, Some("*.ts")}}

\* the calls of getScopeAndName: the names a manifest can have (scoped,
\* unscoped, with an empty scope or an empty name after the scope, with a
\* second "/", a number) and no name
ScopeCalls ==
  {[fn |-> "getScopeAndName", pkgName |-> n] :
     n \in {"", "pkg", "@acme/ui", "@acme", "@scope/", "@/x", "@a/b/c", "a/b", NumberValue(42)}}

\* the most files in a list given to groupFilesByPackage
MaxGroupFiles == 2

\* the depth of the tree of directories d1/d2/...: the directory of the
\* deepest file has the directories of the search above it and one more
\* below the working directory
TreeDepth == ParentSearchDepth + 2

\* the segments of the directory at depth k of the tree (0: the working directory)
DirSegments(k) == [i \in 1..k |-> "d" \o NumToString(i)]

\* what a directory has for a package.json: none, one with the name "pkg"
\* (named), one that does not parse (malformed), one without name (nameless)
ManifestOfKind(kind) ==
  IF kind = "named" THEN Named("pkg")
  ELSE IF kind = "malformed" THEN Malformed
  ELSE Named("")

\* the manifests of the tree whose directory at depth k has kinds[k]
TreeLayoutOf(kinds) ==
  Layout({<<DirSegments(k), ManifestOfKind(kinds[k])>> :
            k \in {j \in DOMAIN kinds : kinds[j] # "none"}})

TreeLayouts ==
  {TreeLayoutOf(kinds) :
     kinds \in {f \in [0..TreeDepth -> {"none", "named", "malformed", "nameless"}] :
                  f[0] \in {"none", "named"}}}

\* markdown files of the tree: one in the deepest directory, one in the
\* directory above it, one in the working directory
TreeFiles ==
  {NativePath(DirSegments(TreeDepth) \o <<"guide.md">>),
   NativePath(DirSegments(TreeDepth - 1) \o <<"api.md">>),
   "notes.md"}

\* the calls of groupFilesByPackage: lists of distinct files
GroupCalls ==
  {[fn |-> "groupFilesByPackage", files |-> l] :
     l \in UNION {{s \in [1..n -> TreeFiles] : \A i, j \in 1..n : i # j => s[i] # s[j]} :
                    n \in 0..MaxGroupFiles}}

InitCall ==
  /\ NoRun
  /\ pc = "call"
  /\ ret = None
  /\ \/ /\ platform = "posix"
        /\ manifests = <<>>
        /\ args \in ExtractCalls \cup FormatSnippetCalls \cup GenerateCalls \cup ValidateCalls
                    \cup ScopeCalls
     \/ /\ platform \in Platforms
        /\ manifests \in TreeLayouts
        /\ args \in GroupCalls

\* a call returns and leaves the arguments and the run alone
Returned ==
  /\ pc' = "return"
  /\ UNCHANGED <<platform, markdownFiles, manifests, docs, unreadable, unwritable, cliOptions,
                 env, validatedOptions, filteredFiles, packageGroups, standaloneFiles,
                 nextGroup, nextFile, processedCount, errorCount, createdDirs, readLog,
                 written, args>>

\* a call throws and leaves the arguments and the run alone
Thrown ==
  /\ pc' = "thrown"
  /\ ret' = None
  /\ UNCHANGED <<platform, markdownFiles, manifests, docs, unreadable, unwritable, cliOptions,
                 env, validatedOptions, filteredFiles, packageGroups, standaloneFiles,
                 nextGroup, nextFile, processedCount, errorCount, createdDirs, readLog,
                 written, args>>

\* extractSnippetsFromTokens(tokens, filePath): [] when tokens is no array,
\* a TypeError when the loop reads the content of a token that has none
ExtractSnippets ==
  /\ pc = "call"
  /\ args.fn = "extractSnippetsFromTokens"
  /\ \/ /\ "tokens" \notin DOMAIN args
        /\ ret' = Some(<<>>)
        /\ Returned
     \/ /\ "tokens" \in DOMAIN args
        /\ ~ExtractThrows(args.tokens)
        /\ ret' = Some(extractSnippetsFromTokens(args.tokens, args.filePath))
        /\ Returned
     \/ /\ "tokens" \in DOMAIN args
        /\ ExtractThrows(args.tokens)
        /\ Thrown

\* formatSnippet(snippet)
FormatSnippet ==
  /\ pc = "call"
  /\ args.fn = "formatSnippet"
  /\ ret' = Some(formatSnippet(args.snippet))
  /\ Returned

\* generateOutputContent(snippets, outputInfo, format, options)
GenerateOutput ==
  /\ pc = "call"
  /\ args.fn = "generateOutputContent"
  /\ ret' = Some(generateOutputContent(args.snippets, args.outputInfo, args.format,
                                        args.options))
  /\ Returned

\* validateOptions(options): the validated options, or the error thrown
ValidateOptions ==
  /\ pc = "call"
  /\ args.fn = "validateOptions"
  /\ ret' = Some(validateOptions(args.options))
  /\ Returned

\* groupFilesByPackage(markdownFiles)
GroupFiles ==
  /\ pc = "call"
  /\ args.fn = "groupFilesByPackage"
  /\ ret' = Some(groupFilesByPackage(args.files))
  /\ Returned

\* getScopeAndName(pkgName)
ScopeAndName ==
  /\ pc = "call"
  /\ args.fn = "getScopeAndName"
  /\ ret' = Some(getScopeAndName(args.pkgName))
  /\ Returned

NextCall ==
  \/ ScopeAndName
  \/ ExtractSnippets
  \/ FormatSnippet
  \/ GenerateOutput
  \/ ValidateOptions
  \/ GroupFiles

SpecCall == InitCall /\ [][NextCall]_vars

(***************************************************************************)
(* Properties of a conversion.                                             *)
(***************************************************************************)
\* the extension of the output files of the run
Ext == "." \o validatedOptions.format

\* the writes made for the source file f
WritesOf(f) == SelectSeq(written, LAMBDA w : w.file = f)

\* f holds a code block with content
HasFence(f) == \E i \in 1..Len(docs[f]) : docs[f][i].type = "fence" /\ docs[f][i].content # ""

\* neither the read of f nor the write of its output fails
Sound(f) == f \notin unreadable /\ f \notin unwritable

\* a package.json that parses and has a name lies beside f
NamedBeside(f) ==
  /\ PathJoin(Dirname(f), "package.json") \in DOMAIN manifests
  /\ manifests[PathJoin(Dirname(f), "package.json")].state = "ok"
  /\ manifests[PathJoin(Dirname(f), "package.json")].name # ""

NameBeside(f) == manifests[PathJoin(Dirname(f), "package.json")].name

\* the scope of a package name "@scope/name" with its "@", "" when it has none
ScopeOfName(n) ==
  IF StartsWith(n, "@") /\ IndexOf(n, "/") > 2 /\ IndexOf(n, "/") < Len(n)
  THEN SubSeq(n, 1, IndexOf(n, "/") - 1)
  ELSE ""

\* the name of a package without its scope
UnscopedName(n) ==
  IF ScopeOfName(n) # "" THEN SubSeq(n, IndexOf(n, "/") + 1, Len(n)) ELSE n

\* <dest>/<scope>/<name>.<ext>, or <dest>/<name>.<ext>
PackageFilePath(n) ==
  IF ScopeOfName(n) # ""
  THEN PathJoin(PathJoin(dest, ScopeOfName(n)), UnscopedName(n) \o Ext)
  ELSE PathJoin(dest, n \o Ext)

\* <dest>/<scope>/<name>, or <dest>/<name>
PackageDirPath(n) ==
  IF ScopeOfName(n) # ""
  THEN PathJoin(PathJoin(dest, ScopeOfName(n)), UnscopedName(n))
  ELSE PathJoin(dest, n)

\* the file name without its markdown extension, whatever its case
MarkdownStem(fileName) ==
  IF EndsWith(toLowerCase(fileName), ".md") THEN SubSeq(fileName, 1, Len(fileName) - 3)
  ELSE IF EndsWith(toLowerCase(fileName), ".markdown")
       THEN SubSeq(fileName, 1, Len(fileName) - 9)
  ELSE fileName

\* group i has been processed
GroupDone(i) == pc \in {"processGroupedFiles", "completed", "conversion_failed"} /\ i < nextGroup

\* group i is a lone README.md beside a manifest named "@scope/name" or with a
\* name without "/", and has been processed
LoneReadmeDone(i) ==
  /\ GroupDone(i)
  /\ Len(packageGroups[i].files) = 1
  /\ Basename(packageGroups[i].files[1]) = "README.md"
  /\ NamedBeside(packageGroups[i].files[1])
  /\ \/ ScopeOfName(NameBeside(packageGroups[i].files[1])) # ""
     \/ ~Includes(NameBeside(packageGroups[i].files[1]), "/")

\* the output of the lone README.md f of the package named n
LoneReadmeOutput(f, n) ==
  /\ \A k \in 1..Len(written) :
       written[k].file = f =>
         /\ written[k].path = PackageFilePath(n)
         /\ EndsWith(written[k].content, "\n@" \o UnscopedName(n) \o "\n")
  /\ Len(WritesOf(f)) <= 1
  /\ (HasFence(f) /\ Sound(f)) => Len(WritesOf(f)) = 1

\* C1: a lone README.md whose directory holds a manifest named "@scope/name" is
\* written exactly once (when it has snippets and no read or write fails), at
\* <dest>/<scope>/<name>.<ext> with the "@" of the scope, and its content ends
\* with the at-tag "@name"; for a name without "/" the output is <dest>/<name>.<ext>
C1_LoneReadmeOutput ==
  \A i \in 1..Len(packageGroups) :
    LoneReadmeDone(i) =>
      LoneReadmeOutput(packageGroups[i].files[1], NameBeside(packageGroups[i].files[1]))

\* the lone README.md of the package "@acme/ui" has been written under "@acme"
C1_ScopedReadmeWritten ==
  \E i \in 1..Len(packageGroups) :
    /\ LoneReadmeDone(i)
    /\ NameBeside(packageGroups[i].files[1]) = "@acme/ui"
    /\ \E k \in 1..Len(written) :
         /\ written[k].file = packageGroups[i].files[1]
         /\ written[k].path = PathJoin(PathJoin("out", "@acme"), "ui" \o Ext)

\* the output of the file f of a processed package of several files named n
PackageFileOutput(f, n) ==
  /\ (HasFence(f) /\ Sound(f)) =>
       \E k \in 1..Len(written) :
         /\ written[k].file = f
         /\ written[k].path = PathJoin(PackageDirPath(n), MarkdownStem(Basename(f)) \o Ext)
         /\ written[k].info.atTag = MarkdownStem(Basename(f))
  /\ \A k \in 1..Len(written) : written[k].file = f => written[k].path # PackageFilePath(n)

\* C2: every file with snippets of a package group of more than one file is
\* written to <dest>/<scope>/<name>/<basename>.<ext> (<dest>/<name>/... when
\* unscoped) with its base name as at-tag, and none to the file <name>.<ext>
C2_PackageDirectoryLayout ==
  \A i \in 1..Len(packageGroups) :
    (GroupDone(i) /\ Len(packageGroups[i].files) > 1) =>
      \A j \in 1..Len(packageGroups[i].files) :
        PackageFileOutput(packageGroups[i].files[j],
                          packageGroups[i].packageInfo.packageJson.name)

\* C3: the output base name and the at-tag of a file that is not a package
\* README are its name without its markdown extension (.md or .markdown in
\* any case), and the output file is named <that name>.<ext>
C3_DefaultBaseName ==
  \A k \in 1..Len(written) :
    Basename(written[k].file) # "README.md" =>
      /\ written[k].info.outputFileName = MarkdownStem(Basename(written[k].file))
      /\ written[k].info.atTag = MarkdownStem(Basename(written[k].file))
      /\ Basename(written[k].path) = MarkdownStem(Basename(written[k].file)) \o Ext

\* C4: an output file is written only with at least one snippet block in it,
\* and only for a document that has a code block with more than white space
C4_NoOutputWithoutSnippet ==
  \A k \in 1..Len(written) :
    /\ Includes(written[k].content, "CODE:\n")
    /\ \E i \in 1..Len(docs[written[k].file]) :
         /\ docs[written[k].file][i].type = "fence"
         /\ Trim(docs[written[k].file][i].content) # ""

\* the processing of f fails
Faulty(f) == f \in unreadable \/ (f \in unwritable /\ HasFence(f))

\* the run is over
Terminal == pc \in {"completed", "conversion_failed"}

BadFormatOrUrl ==
  \/ cliOptions.format # "" /\ cliOptions.format \notin {"md", "mdc"}
  \/ /\ cliOptions.sourceUrl # ""
     /\ ~StartsWith(cliOptions.sourceUrl, "http://")
     /\ ~StartsWith(cliOptions.sourceUrl, "https://")

\* nothing of the conversion has happened
NothingDone == createdDirs = {} /\ readLog = <<>> /\ written = <<>> /\ env = None

\* C6: with an invalid format or source URL handleConvertCommand ends in a
\* configuration error, and a run that ended in a configuration error has
\* created no directory, read and written no file and not set SOURCE_BASE_URL
C6_ConfigErrorsFailFast ==
  /\ (BadFormatOrUrl /\ pc # "handleConvertCommand") => pc = "config_error"
  /\ pc = "config_error" => NothingDone

\* a command line with a valid format and an ftp URL has been rejected
C6_FtpUrlRejected ==
  /\ pc = "config_error"
  /\ cliOptions.format = "md"
  /\ cliOptions.sourceUrl = "ftp://h/r"
  /\ cliOptions.alwaysApply = None
  /\ cliOptions.applyGlob = None
  /\ NothingDone

\* C7: options with both a glob pattern and an always-apply flag are rejected,
\* whatever the flag and the format; options with at most one of the two, a
\* glob that is not blank, and a valid format and source URL are accepted
C7_GlobExcludesAlwaysApply ==
  pc # "handleConvertCommand" =>
    /\ (IsSome(cliOptions.applyGlob) /\ IsSome(cliOptions.alwaysApply)) => pc = "config_error"
    /\ (/\ ~(IsSome(cliOptions.applyGlob) /\ IsSome(cliOptions.alwaysApply))
        /\ IsSome(cliOptions.applyGlob) => Trim(Val(cliOptions.applyGlob)) # ""
        /\ ~BadFormatOrUrl) => pc # "config_error"

\* valid md options with --no-always-apply and a glob have been rejected
C7_BothRejected ==
  /\ pc = "config_error"
  /\ cliOptions.format = "md"
  /\ cliOptions.sourceUrl = ""
  /\ cliOptions.alwaysApply = Some(FALSE)
  /\ cliOptions.applyGlob = Some("*.ts")

\* C8: in an mdc conversion with a glob pattern every written file has the
\* frontmatter line glob: "<pattern>" and no alwaysApply line, and with
\* alwaysApply false every written file has the line alwaysApply: false
C8_RuleModeReachesOutput ==
  \A k \in 1..Len(written) :
    validatedOptions.format = "mdc" =>
      /\ IsSome(cliOptions.applyGlob) =>
           /\ Includes(written[k].content,
                       "\nglob: \"" \o Trim(Val(cliOptions.applyGlob)) \o "\"\n")
           /\ ~Includes(written[k].content, "alwaysApply")
      /\ cliOptions.alwaysApply = Some(FALSE) =>
           Includes(written[k].content, "\nalwaysApply: false\n")

\* String.prototype.split("\n")
RECURSIVE SplitLines(_)
SplitLines(s) ==
  IF IndexOf(s, "\n") = 0 THEN <<s>>
  ELSE <<SubSeq(s, 1, IndexOf(s, "\n") - 1)>>
       \o SplitLines(SubSeq(s, IndexOf(s, "\n") + 1, Len(s)))

\* the SOURCE: lines of a content
SourceLines(content) == SelectSeq(SplitLines(content), LAMBDA l : StartsWith(l, "SOURCE: "))

\* the SOURCE: lines a file may have: with a base URL, the base (as given or
\* with its closing "/") and the path of the file from the repository root;
\* without one, the link getSourceUrl computes
ExpectedSourceLines(f) ==
  IF cliOptions.sourceUrl # ""
  THEN {"SOURCE: " \o cliOptions.sourceUrl \o getRelativePath(f),
        "SOURCE: " \o cliOptions.sourceUrl \o "/" \o getRelativePath(f)}
  ELSE {"SOURCE: " \o getSourceUrl(f)}

\* C9: every SOURCE: line written is the configured base URL followed by the
\* path of the file from the repository root, or without a base the link
\* getSourceUrl computes for the file
C9_SourceLineIsSourceUrl ==
  \A k \in 1..Len(written) :
    \A j \in 1..Len(SourceLines(written[k].content)) :
      SourceLines(written[k].content)[j] \in ExpectedSourceLines(written[k].file)

\* the base name of f is on the denylist
Denylisted(f) == Contains(excludedFiles, Basename(f))

\* C10: once the files are filtered, the files kept are the collected files
\* whose base name is not exactly on the denylist, in their order, and no
\* file on the denylist is grouped, read or written
C10_DenylistedNeverProcessed ==
  pc \in {"processGroupedFiles", "completed", "conversion_failed"} =>
    /\ filteredFiles = SelectSeq(markdownFiles, LAMBDA f : ~Denylisted(f))
    /\ \A i \in 1..Len(markdownFiles) :
         Denylisted(markdownFiles[i]) =>
           /\ ~Contains(readLog, markdownFiles[i])
           /\ ~Contains(standaloneFiles, markdownFiles[i])
           /\ \A g \in 1..Len(packageGroups) :
                ~Contains(packageGroups[g].files, markdownFiles[i])
           /\ Len(WritesOf(markdownFiles[i])) = 0

(***************************************************************************)
(* Properties of the snippet extractor called on its own.                  *)
(***************************************************************************)
IsFence(tokens, i) == tokens[i].type = "fence"

\* the 1-based position of the fence at i among the fences of the array
FencePosition(tokens, i) == Cardinality({k \in 1..i : IsFence(tokens, k)})

HeadingBefore(tokens, i) == \E k \in 1..(i - 1) : tokens[k].type = "heading_open"

\* no other fence of the array has the same code, so that the snippet of the
\* fence at i is known by its code
OnlyFenceWithItsCode(tokens, i) ==
  \A k \in 1..Len(tokens) :
    (k # i /\ IsFence(tokens, k)) => Trim(tokens[k].content) # Trim(tokens[i].content)

\* the snippets of the result that were extracted from the fence at i
SnippetsOfFence(tokens, snippets, i) ==
  {j \in 1..Len(snippets) : snippets[j].code = Trim(tokens[i].content)}

Extracted ==
  pc = "return" /\ args.fn = "extractSnippetsFromTokens" /\ "tokens" \in DOMAIN args

\* C11: the snippet of a fence that no heading_open precedes is titled
\* 'Snippet N', N being the 1-based position of the fence among all the
\* fence tokens of the array.
C11_SnippetNumberIsFencePosition ==
  Extracted =>
    \A i \in 1..Len(args.tokens) :
      (/\ IsFence(args.tokens, i)
       /\ ~HeadingBefore(args.tokens, i)
       /\ OnlyFenceWithItsCode(args.tokens, i)) =>
        \A j \in SnippetsOfFence(args.tokens, Val(ret), i) :
          Val(ret)[j].title = "Snippet " \o NumToString(FencePosition(args.tokens, i))

\* the non-empty inline tokens before the token at i
TextBefore(tokens, i) ==
  {k \in 1..(i - 1) : /\ tokens[k].type = "inline"
                        /\ "content" \in DOMAIN tokens[k]
                        /\ Trim(tokens[k].content) # ""}

NearestTextBefore(tokens, i) == CHOOSE k \in TextBefore(tokens, i) :
                                  \A m \in TextBefore(tokens, i) : m <= k

\* a heading_open or a fence lies strictly between k and i
BreakBetween(tokens, k, i) ==
  \E m \in (k + 1)..(i - 1) : tokens[m].type \in {"heading_open", "fence"}

\* the description that the fence at i is to have
DescriptionOfFence(tokens, i) ==
  IF TextBefore(tokens, i) = {} THEN ""
  ELSE IF BreakBetween(tokens, NearestTextBefore(tokens, i), i) THEN ""
  ELSE Trim(tokens[NearestTextBefore(tokens, i)].content)

\* C12: the description of the snippet of the fence at i is the trimmed
\* content of the nearest inline token before i that has text, when no
\* heading_open and no fence lies between the two, and is empty otherwise.
C12_DescriptionIsNearestText ==
  Extracted =>
    \A i \in 1..Len(args.tokens) :
      (IsFence(args.tokens, i) /\ OnlyFenceWithItsCode(args.tokens, i)) =>
        \A j \in SnippetsOfFence(args.tokens, Val(ret), i) :
          Val(ret)[j].description = DescriptionOfFence(args.tokens, i)

\* a fence follows a fence that follows a text: the second snippet has no
\* description although there is text before it
C12_TextBeforeEarlierFenceUnused ==
  /\ Extracted
  /\ \E i \in 1..Len(args.tokens) :
       /\ IsFence(args.tokens, i)
       /\ OnlyFenceWithItsCode(args.tokens, i)
       /\ TextBefore(args.tokens, i) # {}
       /\ BreakBetween(args.tokens, NearestTextBefore(args.tokens, i), i)
       /\ IsFence(args.tokens, i - 1)
       /\ \E j \in SnippetsOfFence(args.tokens, Val(ret), i) : Val(ret)[j].description = ""

\* C13: the language of an extracted snippet is the trimmed info string of
\* its fence, and 'text' whenever the trimmed info string is empty; it is
\* never the empty string.
C13_LanguageNeverEmpty ==
  Extracted =>
    /\ \A j \in 1..Len(Val(ret)) : Val(ret)[j].language # ""
    /\ \A i \in 1..Len(args.tokens) :
         (IsFence(args.tokens, i) /\ OnlyFenceWithItsCode(args.tokens, i)) =>
           \A j \in SnippetsOfFence(args.tokens, Val(ret), i) :
             Val(ret)[j].language = (IF Trim(args.tokens[i].info) = "" THEN "text"
                                     ELSE Trim(args.tokens[i].info))

\* the indexes of the fences of the array
Fences(tokens) == {i \in 1..Len(tokens) : IsFence(tokens, i)}

\* C20: the extractor emits exactly one snippet per fence token, in the
\* order of the array, also for a fence whose content is the empty string.
C20_OneSnippetPerFence ==
  Extracted =>
    /\ Len(Val(ret)) = Cardinality(Fences(args.tokens))
    /\ \A i \in Fences(args.tokens) :
         Val(ret)[FencePosition(args.tokens, i)].code = Trim(args.tokens[i].content)

(***************************************************************************)
(* Reading a formatted block back, line by line.                           *)
(***************************************************************************)
Formatted == pc = "return" /\ args.fn = "formatSnippet"

\* the index of the first line from index from on that starts with prefix,
\* 0 when there is none
RECURSIVE FirstLineWith(_, _, _)
FirstLineWith(lines, prefix, from) ==
  IF from > Len(lines) THEN 0
  ELSE IF StartsWith(lines[from], prefix) THEN from
  ELSE FirstLineWith(lines, prefix, from + 1)

\* the index of the first line from index from on that is the closing fence
RECURSIVE FirstClosingFence(_, _)
FirstClosingFence(lines, from) ==
  IF from > Len(lines) THEN 0
  ELSE IF lines[from] = FenceMark THEN from
  ELSE FirstClosingFence(lines, from + 1)

\* the text of the line of a label, after the label
FieldOfLine(lines, label) ==
  IF FirstLineWith(lines, label, 1) = 0 THEN ""
  ELSE SubSeq(lines[FirstLineWith(lines, label, 1)], Len(label) + 1,
              Len(lines[FirstLineWith(lines, label, 1)]))

\* the lines between the opening fence line at index open and the first
\* closing fence line after it
CodeBetween(lines, open) ==
  IF open = 0 \/ FirstClosingFence(lines, open + 1) = 0 THEN ""
  ELSE JoinLines(SubSeq(lines, open + 1, FirstClosingFence(lines, open + 1) - 1), "\n")

ParsedTitle(block) == FieldOfLine(SplitLines(block), "TITLE: ")
ParsedLanguage(block) == FieldOfLine(SplitLines(block), "LANGUAGE: ")
ParsedCode(block) == CodeBetween(SplitLines(block), FirstLineWith(SplitLines(block), FenceMark, 1))

\* C16: reading the block of a snippet back line by line (the TITLE: line,
\* the LANGUAGE: line, the text between the opening fence line and the first
\* closing fence line) recovers title, language and code of the snippet,
\* also for a code with a line of three backquotes and a title of two lines.
C16_FormatSnippetRoundTrip ==
  (/\ Formatted
   /\ args.snippet.title # ""
   /\ args.snippet.language # ""
   /\ args.snippet.code # "") =>
    /\ ParsedTitle(Val(ret)) = args.snippet.title
    /\ ParsedLanguage(Val(ret)) = args.snippet.language
    /\ ParsedCode(Val(ret)) = args.snippet.code

(***************************************************************************)
(* Properties of the output formatter called on its own.                   *)
(***************************************************************************)
Generated == pc = "return" /\ args.fn = "generateOutputContent"

\* a glob pattern is given
GlobSupplied(options) == IsSome(options.applyGlob) /\ Val(options.applyGlob) # ""

\* the rule line that the options ask for
RuleLineAsked(options) ==
  IF GlobSupplied(options) THEN "glob: \"" \o Val(options.applyGlob) \o "\""
  ELSE IF options.alwaysApply = Some(FALSE) THEN "alwaysApply: false"
  ELSE "alwaysApply: true"

\* the lines of the frontmatter block, without the blank line after it
FrontmatterAsked(outputInfo, options) ==
  "---\n" \o "description: " \o outputInfo.outputFileName \o "\n"
  \o RuleLineAsked(options) \o "\n" \o "---\n"

\* C14: for format mdc and a non-empty snippet list the content starts with
\* the frontmatter block: '---', the description line with the output file
\* name, the glob line when a pattern is given and else the alwaysApply line
\* (true unless the option is false), '---', and a blank line; for format md
\* the content has no frontmatter.
C14_MdcFrontmatter ==
  (Generated /\ Len(args.snippets) > 0) =>
    IF args.format = "mdc"
    THEN StartsWith(Val(ret), FrontmatterAsked(args.outputInfo, args.options) \o "\n")
    ELSE ~StartsWith(Val(ret), "---")

\* the at-tag line that the tag asks for
AtTagAsked(atTag) ==
  IF atTag = "" THEN "" ELSE IF Includes(atTag, "@") THEN atTag ELSE "@" \o atTag

\* the last line of a content that ends with a line break
LastLine(content) == SplitLines(content)[Len(SplitLines(content)) - 1]

\* C15: for a non-empty snippet list the last line of the content is the
\* at-tag, as it is when it holds an @ anywhere and after an @ otherwise;
\* with an empty tag nothing is appended and the content ends with two line
\* breaks.
C15_LastLineIsAtTag ==
  (Generated /\ Len(args.snippets) > 0) =>
    /\ EndsWith(Val(ret), "\n")
    /\ LastLine(Val(ret)) = AtTagAsked(args.outputInfo.atTag)
    /\ args.outputInfo.atTag = "" => EndsWith(Val(ret), "\n\n")

\* a tag with an @ inside closes the content unchanged, after snippet blocks
C15_InnerAtTagKept ==
  /\ Generated
  /\ Len(args.snippets) = 2
  /\ args.outputInfo.atTag = "docs@2"
  /\ EndsWith(Val(ret), "----------------------------------------\ndocs@2\n")

(***************************************************************************)
(* Properties of the option validator called on its own.                   *)
(***************************************************************************)
Validated == pc = "return" /\ args.fn = "validateOptions"

HttpUrl(url) == StartsWith(url, "http://") \/ StartsWith(url, "https://")

\* the options have nothing wrong besides, possibly, the source URL
OtherOptionsValid(options) ==
  /\ options.format \in {"", "md", "mdc"}
  /\ ~(IsSome(options.alwaysApply) /\ IsSome(options.applyGlob))
  /\ IsSome(options.applyGlob) => Trim(Val(options.applyGlob)) # ""

\* the source URL that validated options are to have
SourceUrlAsked(url) ==
  IF url = "" THEN None
  ELSE IF EndsWith(url, "/") THEN Some(url) ELSE Some(url \o "/")

\* C17: validateOptions returns sourceUrl null when no source URL is given,
\* raises for a source URL that starts with neither http:// nor https://,
\* and otherwise returns the URL with one "/" appended if and only if it did
\* not end with "/"; validating the returned URL returns it unchanged.
C17_SourceUrlNormalized ==
  Validated =>
    /\ (args.options.sourceUrl # "" /\ ~HttpUrl(args.options.sourceUrl)) => ~Val(ret).ok
    /\ (/\ OtherOptionsValid(args.options)
        /\ args.options.sourceUrl = "" \/ HttpUrl(args.options.sourceUrl)) => Val(ret).ok
    /\ Val(ret).ok =>
         /\ Val(ret).value.sourceUrl = SourceUrlAsked(args.options.sourceUrl)
         /\ IsSome(Val(ret).value.sourceUrl) =>
              validateOptions([args.options EXCEPT
                                 !.sourceUrl = Val(Val(ret).value.sourceUrl)]) = Val(ret)

\* a URL that ends with "/" is returned as it is
C17_ClosedUrlUnchanged ==
  /\ Validated
  /\ args.options.sourceUrl = "https://h/r/"
  /\ Val(ret).ok
  /\ Val(ret).value.sourceUrl = Some("https://h/r/")

(***************************************************************************)
(* Properties of the package grouper called on its own.                    *)
(***************************************************************************)
Grouped == pc = "return" /\ args.fn = "groupFilesByPackage"

\* the directory k levels above dir, which is dir itself where the path has
\* nothing above it
RECURSIVE Above(_, _)
Above(dir, k) == IF k = 0 THEN dir ELSE Dirname(Above(dir, k - 1))

\* the manifest at the path is there, parses and has a name
NamedManifestAt(packageJsonPath) ==
  /\ packageJsonPath \in DOMAIN manifests
  /\ manifests[packageJsonPath].state = "ok"
  /\ manifests[packageJsonPath].name # ""

HasNamedManifest(dir) == NamedManifestAt(PathJoin(dir, "package.json"))

\* the nearest directory with a named manifest among dir and the directories
\* up to the given number of levels above it, None when there is none
RECURSIVE NearestNamed(_, _)
NearestNamed(dir, levels) ==
  IF HasNamedManifest(dir) THEN Some(dir)
  ELSE IF levels = 0 THEN None
  ELSE NearestNamed(Dirname(dir), levels - 1)

\* the directory of the package of the file, None when it has no package
PackageDirAsked(f) == NearestNamed(Dirname(f), 3)

\* the groups of the result that hold the file
GroupsOf(result, f) ==
  {i \in 1..Len(result.packageGroups) : Contains(result.packageGroups[i].files, f)}

\* the result has the file in the package of the directory, or standalone
\* when there is none
ResolvedAs(result, f, dir) ==
  IF dir = None
  THEN /\ Contains(result.standaloneFiles, f)
       /\ GroupsOf(result, f) = {}
  ELSE /\ ~Contains(result.standaloneFiles, f)
       /\ GroupsOf(result, f) # {}
       /\ \A i \in GroupsOf(result, f) :
            /\ result.packageGroups[i].packageInfo.packageDir = Val(dir)
            /\ result.packageGroups[i].packageInfo.packageJsonPath
                 = PathJoin(Val(dir), "package.json")
            /\ result.packageGroups[i].packageInfo.packageJson.name
                 = manifests[PathJoin(Val(dir), "package.json")].name

\* C19: the package of a file is the manifest of the nearest directory,
\* among the directory of the file and the first three directories above
\* it, whose manifest parses and has a name; a missing, malformed or
\* nameless manifest is passed over, a manifest four levels up is never
\* taken, and a file without such a directory has no package.
C19_NearestNamedManifest ==
  Grouped =>
    \A k \in 1..Len(args.files) :
      ResolvedAs(Val(ret), args.files[k], PackageDirAsked(args.files[k]))

\* a file with a malformed manifest beside it, a nameless one above and a
\* named one four levels up has no package
C19_FourthLevelNotTaken ==
  /\ Grouped
  /\ \E k \in 1..Len(args.files) :
       /\ PathJoin(Dirname(args.files[k]), "package.json") \in DOMAIN manifests
       /\ manifests[PathJoin(Dirname(args.files[k]), "package.json")].state = "malformed"
       /\ PathJoin(Above(Dirname(args.files[k]), 1), "package.json") \in DOMAIN manifests
       /\ manifests[PathJoin(Above(Dirname(args.files[k]), 1), "package.json")] = Named("")
       /\ Above(Dirname(args.files[k]), 4) # Above(Dirname(args.files[k]), 3)
       /\ HasNamedManifest(Above(Dirname(args.files[k]), 4))
       /\ PackageDirAsked(args.files[k]) = None
       /\ Contains(Val(ret).standaloneFiles, args.files[k])

\* the manifest path of the package of the file, None when it has no package
ManifestIn(dir) == IF dir = None THEN None ELSE Some(PathJoin(Val(dir), "package.json"))

ManifestAsked(f) == ManifestIn(PackageDirAsked(f))

\* two files resolve to the same manifest path
SameManifest(manifest, other) == manifest # None /\ manifest = other

\* the index of the file in the list
IndexIn(files, f) == CHOOSE k \in 1..Len(files) : files[k] = f

\* C18: two files are in the same group if and only if they resolve to the
\* same manifest path, so that two manifests of the same name at different
\* paths give two groups; the groups are in the order in which their first
\* files appear in the input, and the files of a group and the standalone
\* files are in input order.
C18_GroupedByManifestPath ==
  Grouped =>
    /\ \A k, m \in 1..Len(args.files) :
         (GroupsOf(Val(ret), args.files[k]) \cap GroupsOf(Val(ret), args.files[m]) # {})
           <=> SameManifest(ManifestAsked(args.files[k]), ManifestAsked(args.files[m]))
    /\ \A i \in 1..Len(Val(ret).packageGroups) :
         /\ Val(ret).packageGroups[i].files # <<>>
         /\ Val(ret).packageGroups[i].files
              = SelectSeq(args.files,
                          LAMBDA f : i \in GroupsOf(Val(ret), f))
    /\ \A i, j \in 1..Len(Val(ret).packageGroups) :
         i < j => IndexIn(args.files, Val(ret).packageGroups[i].files[1])
                    < IndexIn(args.files, Val(ret).packageGroups[j].files[1])
    /\ Val(ret).standaloneFiles
         = SelectSeq(args.files, LAMBDA f : GroupsOf(Val(ret), f) = {})

\* two files under two manifests of the same name: two groups, the group of
\* the first file first
C18_SameNameTwoGroups ==
  /\ Grouped
  /\ Len(args.files) = 2
  /\ Len(Val(ret).packageGroups) = 2
  /\ Val(ret).packageGroups[1].packageInfo.packageJson.name
       = Val(ret).packageGroups[2].packageInfo.packageJson.name
  /\ Val(ret).packageGroups[1].packageInfo.packageJsonPath
       # Val(ret).packageGroups[2].packageInfo.packageJsonPath
  /\ Val(ret).packageGroups[1].files = <<args.files[1]>>
  /\ Val(ret).packageGroups[2].files = <<args.files[2]>>

(***************************************************************************)
(* Titles of the extracted snippets.                                       *)
(***************************************************************************)
\* the index of the last heading_open before i, 0 when there is none
RECURSIVE LastHeadingBefore(_, _)
LastHeadingBefore(tokens, i) ==
  IF i <= 1 THEN 0
  ELSE IF tokens[i - 1].type = "heading_open" THEN i - 1
  ELSE LastHeadingBefore(tokens, i - 1)

\* the text of the heading_open at index h (0: no heading): the trimmed
\* content of the token after it when that is an inline token
HeadingTextOf(tokens, h) ==
  IF h = 0 THEN ""
  ELSE IF h + 1 <= Len(tokens) /\ tokens[h + 1].type = "inline" THEN Trim(tokens[h + 1].content)
  ELSE ""

\* the heading text in force at index i
HeadingTextAt(tokens, i) == HeadingTextOf(tokens, LastHeadingBefore(tokens, i))

\* the titles 'Snippet N'
SnippetTitles(n) == {"Snippet " \o NumToString(k) : k \in 1..n}

\* the title is the heading text, or a 'Snippet N' when there is none
TitledBy(title, headingText, n) ==
  /\ title # ""
  /\ IF headingText # "" THEN title = headingText ELSE title \in SnippetTitles(n)

\* C21: the title of every extracted snippet is the trimmed content of the
\* inline token right after the last heading_open before its fence, when
\* that token is an inline token with text, and a 'Snippet N' otherwise (a
\* later heading without text clears an earlier one); no title is empty.
C21_TitleIsCurrentHeading ==
  Extracted =>
    /\ \A j \in 1..Len(Val(ret)) : Val(ret)[j].title # ""
    /\ \A i \in 1..Len(args.tokens) :
         (IsFence(args.tokens, i) /\ OnlyFenceWithItsCode(args.tokens, i)) =>
           \A j \in SnippetsOfFence(args.tokens, Val(ret), i) :
             TitledBy(Val(ret)[j].title, HeadingTextAt(args.tokens, i), Len(args.tokens))

\* a heading with text, then a heading without text, then a fence: the
\* snippet is titled 'Snippet 1'
C21_LaterHeadingClears ==
  /\ Extracted
  /\ Len(args.tokens) = 4
  /\ args.tokens[1].type = "heading_open"
  /\ args.tokens[2] = Token("inline", "Title", "")
  /\ args.tokens[3].type = "heading_open"
  /\ IsFence(args.tokens, 4)
  /\ Len(Val(ret)) = 1
  /\ Val(ret)[1].title = "Snippet 1"

\* C22: extractSnippetsFromTokens never raises: without a tokens array it
\* returns the empty list, and with an array that holds malformed tokens (an
\* inline token without content before a fence or after a heading_open) it
\* still returns a list.
C22_ExtractNeverRaises ==
  (args.fn = "extractSnippetsFromTokens" /\ pc # "call") =>
    /\ pc = "return"
    /\ IsSome(ret)
    /\ "tokens" \notin DOMAIN args => Val(ret) = <<>>

\* the snippet has a title and code
Renderable(snippet) == snippet.title # "" /\ snippet.code # ""

\* C23: a snippet without title or without code contributes nothing to the
\* content, not even blank lines: the content of a list is the content of
\* the list without those snippets, when a snippet with title and code
\* remains.
C23_UnrenderableSnippetsLeaveNoTrace ==
  (Generated /\ \E k \in 1..Len(args.snippets) : Renderable(args.snippets[k])) =>
    Val(ret) = generateOutputContent(SelectSeq(args.snippets, Renderable), args.outputInfo,
                                     args.format, args.options)

\* how often the file is in the list
Occurrences(files, f) == Cardinality({k \in 1..Len(files) : files[k] = f})

\* how often the file is in the files of the groups
RECURSIVE OccurrencesInGroups(_, _, _)
OccurrencesInGroups(groups, i, f) ==
  IF i > Len(groups) THEN 0
  ELSE Occurrences(groups[i].files, f) + OccurrencesInGroups(groups, i + 1, f)

\* the number of files of the groups
RECURSIVE FilesInGroups(_, _)
FilesInGroups(groups, i) ==
  IF i > Len(groups) THEN 0 ELSE Len(groups[i].files) + FilesInGroups(groups, i + 1)

\* C28: groupFilesByPackage partitions its input: every file of the list is
\* exactly once in the result, in one group or in standaloneFiles, the sizes
\* add up to the length of the list, and no group is empty.
C28_GroupingPartitionsInput ==
  Grouped =>
    /\ \A k \in 1..Len(args.files) :
         OccurrencesInGroups(Val(ret).packageGroups, 1, args.files[k])
           + Occurrences(Val(ret).standaloneFiles, args.files[k]) = 1
    /\ FilesInGroups(Val(ret).packageGroups, 1) + Len(Val(ret).standaloneFiles)
         = Len(args.files)
    /\ \A i \in 1..Len(Val(ret).packageGroups) : Val(ret).packageGroups[i].files # <<>>

\* a list of two files, one in a package and one standalone
C28_OneGroupedOneStandalone ==
  /\ Grouped
  /\ Len(args.files) = 2
  /\ Len(Val(ret).packageGroups) = 1
  /\ Len(Val(ret).packageGroups[1].files) = 1
  /\ Len(Val(ret).standaloneFiles) = 1

(***************************************************************************)
(* Properties of the package name parser called on its own.                *)
(***************************************************************************)
\* a scope is null, or starts with @ and holds no /
ScopeWellFormed(scope) ==
  scope = None \/ (StartsWith(Val(scope), "@") /\ ~Includes(Val(scope), "/"))

\* C25: for every truthy manifest name, which is every name a package
\* context can have, the descriptor of getScopeAndName has a non-empty name
\* and a scope that is null or starts with @ and holds no /; also for a
\* name that is no string and for names such as '@scope/' and '@/x'.
C25_DescriptorWellFormed ==
  (pc = "return" /\ args.fn = "getScopeAndName" /\ args.pkgName # "") =>
    /\ Val(ret).name # ""
    /\ ScopeWellFormed(Val(ret).scope)

(***************************************************************************)
(* Properties of the output of a conversion: the README of a package       *)
(* resolved in an ancestor directory, the files of a failing group, the    *)
(* output paths, the counters.                                             *)
(***************************************************************************)
\* group i is a lone README.md whose package was resolved in a directory
\* above its own (no manifest that parses and has a name lies beside it),
\* and has been processed
AncestorReadmeDone(i) ==
  /\ GroupDone(i)
  /\ Len(packageGroups[i].files) = 1
  /\ Basename(packageGroups[i].files[1]) = "README.md"
  /\ ~NamedBeside(packageGroups[i].files[1])
  /\ packageGroups[i].packageInfo.packageDir # Dirname(packageGroups[i].files[1])

\* C24: a lone README.md whose package is resolved in an ancestor directory
\* is written as the README of a package with a manifest beside it: at
\* <dest>/<scope>/<name>.<ext> (<dest>/<name>.<ext> when unscoped), with the
\* name of the package as output base name and at-tag
C24_AncestorReadmeNamedByPackage ==
  \A i \in 1..Len(packageGroups) :
    AncestorReadmeDone(i) =>
      \A k \in 1..Len(written) :
        written[k].file = packageGroups[i].files[1] =>
          /\ written[k].path = PackageFilePath(packageGroups[i].packageInfo.packageJson.name)
          /\ written[k].info.outputFileName
               = UnscopedName(packageGroups[i].packageInfo.packageJson.name)
          /\ written[k].info.atTag
               = UnscopedName(packageGroups[i].packageInfo.packageJson.name)

\* the extractor finds a snippet in f
HasSnippets(f) == Len(extractSnippetsFromTokens(docs[f], f)) > 0

\* the read of f has been tried
Attempted(f) == Contains(readLog, f)

\* f has been attempted: read, and written when it has snippets, unless its
\* own read or write fails
AttemptedInFull(f) ==
  /\ Attempted(f)
  /\ (f \notin unreadable /\ f \notin unwritable /\ HasSnippets(f)) => Len(WritesOf(f)) = 1

\* the kept files whose processing fails
FaultyFiles == {f \in Range(filteredFiles) : f \in unreadable \/ (f \in unwritable /\ HasSnippets(f))}

\* C26: every file of a processed package group of several files is
\* attempted, whatever happens to the other files of the group, and at the
\* end of the run the failures counted are the files whose processing failed
C26_SiblingsStillAttempted ==
  /\ \A i \in 1..Len(packageGroups) :
       (GroupDone(i) /\ Len(packageGroups[i].files) > 1) =>
         \A j \in 1..Len(packageGroups[i].files) : AttemptedInFull(packageGroups[i].files[j])
  /\ Terminal => errorCount = Cardinality(FaultyFiles)

\* C27: no two different source files are written to the same output path
\* in one run
C27_OutputPathsDistinct ==
  \A k, l \in 1..Len(written) :
    written[k].path = written[l].path => written[k].file = written[l].file

\* the processing of group i throws: the processing of one of its files fails
GroupFails(i) == \E j \in 1..Len(packageGroups[i].files) : packageGroups[i].files[j] \in FaultyFiles

\* the number of files of the groups from i on whose processing throws
RECURSIVE FailedGroupFiles(_)
FailedGroupFiles(i) ==
  IF i > Len(packageGroups) THEN 0
  ELSE (IF GroupFails(i) THEN Len(packageGroups[i].files) ELSE 0) + FailedGroupFiles(i + 1)

\* the number of standalone files whose processing throws
FailedStandaloneFiles == Cardinality({j \in 1..Len(standaloneFiles) : standaloneFiles[j] \in FaultyFiles})

\* C29: at the end of the run processedCount + errorCount is the number of
\* kept files; errorCount is the number of files of the groups with a failing
\* file plus the number of failing standalone files, so a group is counted
\* as a whole and a file without snippets is counted as processed
C29_CountersCoverKeptFiles ==
  Terminal =>
    /\ processedCount + errorCount = Len(filteredFiles)
    /\ errorCount = FailedGroupFiles(1) + FailedStandaloneFiles

\* a run has ended in which the first file of a group of two was written, the
\* write of the second failed and both are counted as errors
C29_GroupCountedAfterWrite ==
  /\ Terminal
  /\ Len(packageGroups) = 1
  /\ Len(packageGroups[1].files) = 2
  /\ Len(written) = 1
  /\ written[1].file = packageGroups[1].files[1]
  /\ packageGroups[1].files[2] \in FaultyFiles
  /\ errorCount = 2
  /\ processedCount = 0

\* the turn of the loop for the group at nextGroup leaves what the effect e of
\* processing its file leaves: the reads, the directories and the writes
LeavesEffect(e) ==
  /\ readLog' = readLog \o e.reads
  /\ createdDirs' = createdDirs \cup Range(e.dirs)
  /\ written' = written \o e.writes
  /\ (errorCount' = errorCount) = e.ok

\* the files of the processed groups of several files are written into the
\* directory of their package, which exists even when a file has no snippet
PackageDirUsed ==
  \A i \in 1..Len(packageGroups) :
    (GroupDone(i) /\ Len(packageGroups[i].files) > 1) =>
      /\ PackageDirPath(packageGroups[i].packageInfo.packageJson.name) \in createdDirs
      /\ \A k \in 1..Len(written) :
           Contains(packageGroups[i].files, written[k].file) =>
             Dirname(written[k].path)
               = PackageDirPath(packageGroups[i].packageInfo.packageJson.name)

================================================================================
